---- MODULE Spec2Model ----
(***************************************************************************)
(* Model of the typhoon CLI: the client-binding generator                  *)
(* (cli/src/bindings.rs, cli/src/validation.rs, cli/src/scaffold.rs), the  *)
(* init and add program commands (cli/src/commands/init.rs, add.rs,        *)
(* cli/src/keypair.rs, cli/src/utils.rs), the test, build and clean        *)
(* commands (cli/src/commands/test.rs, build.rs, clean.rs,                 *)
(* cli/src/checks/solana.rs), keys sync (cli/src/keys.rs), add_instruction *)
(* (cli/src/scaffold.rs) and run_all_tests (cli/src/test.rs).              *)
(*                                                                         *)
(* Strings that the code transforms character by character (identifiers,  *)
(* program names, addresses) are sequences of one-character strings.       *)
(* Strings that the code only compares or copies (language names, type     *)
(* tags, fixed file names) are TLA+ strings.                                *)
(* A serde_json access that may be absent is an option: <<>> is absent,    *)
(* <<v>> is present with value v.                                          *)
(***************************************************************************)
EXTENDS Integers, Sequences, FiniteSets, TLC

VARIABLES
    \* ---- generate_bindings: inputs and environment
    languages,      \* the requested language list (languages: &[String])
    inWorkspace,    \* find_workspace_root() finds a workspace
    idlDirExists,   \* target/idl exists
    idlDir,         \* the entries of target/idl in read_dir order
    \* ---- generate_bindings: locals
    pc,             \* position in generate_bindings
    idl_files,      \* the collected paths with extension json
    di,             \* index of the current idl_path in idl_files
    li,             \* index of the current language in languages
    completed,      \* the progress counter
    \* ---- generate_bindings: effects
    files,          \* output tree: set of [path, content] (one per path)
    writes,         \* log of file writes: sequence of [d, l, path]
    attempts,       \* log of emitter calls: sequence of <<d, l>>
    warnings,       \* the "Unsupported language" lines printed
    result,         \* "running", "ok" or the kind of the error returned
    run,            \* 1 in the first run of the command, 2 in a repeated run
    first,          \* the output tree the first run left (in a repeated run)
    \* ---- pure functions applied to drawn inputs
    fpc,            \* "idle", "ready" or "applied"
    fin,            \* the drawn input
    fout,           \* the function results
    \* ---- init / add program: the directory the commands run in
    tree,           \* the tree under the current directory: set of entries
    procs,          \* the command each process runs and its position in it
    unix,           \* the build is for a unix target (cfg(unix))
    \* ---- the test command
    test,           \* its position, what it found, and the cargo test process
    \* ---- the build and clean commands
    job,            \* the command run, its position and the processes it started
    \* ---- keys sync
    wksp,           \* the workspace: keypair files, lib.rs texts, typhoon.toml
    sync,           \* the position of keys sync and what it holds in memory
    \* ---- run_all_tests
    suite           \* programs/ as listed, the position in the loop, the test runs

vars == <<languages, inWorkspace, idlDirExists, idlDir, pc, idl_files, di, li,
          completed, files, writes, attempts, warnings, result, run, first,
          fpc, fin, fout, tree, procs, unix, test, job, wksp, sync, suite>>

genVars == <<languages, inWorkspace, idlDirExists, idlDir, pc, idl_files, di, li,
             completed, files, writes, attempts, warnings, result, run, first>>

funVars == <<fpc, fin, fout>>

rerunVars == <<run, first>>

cmdVars == <<tree, procs, unix, test>>

syncVars == <<wksp, sync>>

auxVars == <<job, syncVars, suite>>

\* what the build and clean commands leave alone
jobFrame == <<genVars, funVars, cmdVars, syncVars, suite>>

\* what keys sync leaves alone
syncFrame == <<genVars, funVars, cmdVars, job, suite>>

\* what run_all_tests leaves alone
suiteFrame == <<genVars, funVars, cmdVars, job, syncVars>>

\* two invocations of the CLI, possibly at the same time
Procs == {"p1", "p2"}

\* a process that has not been started
IdleProc ==
    [pc |-> "idle", cmd |-> "", name |-> <<>>, template |-> "", result |-> "",
     base |-> "", program_id |-> "", wrote |-> {}, after |-> {}]

\* the test command before it is run
TestIdle == [pc |-> "idle", is_workspace |-> "", result |-> "", cargo |-> "not started"]

\* the build or clean command before it is run
JobIdle == [pc |-> "idle", cmd |-> "", result |-> "", started |-> {}]

\* the programs a workspace may declare in typhoon.toml
SyncPrograms == {"a", "b"}

\* src/lib.rs of a program: whether the file exists, and its first
\* program_id! call: "none" (the pattern matches nothing), "canonical"
\* (exactly program_id!("<id>");) or "loose" (a call the pattern matches
\* that is written another way, e.g. without the semicolon)
LibText(exists, macro, id) == [exists |-> exists, macro |-> macro, id |-> id]

NoLib == LibText(FALSE, "none", "")

\* a directory that is not a workspace
EmptyWs ==
    [keypair |-> [n \in SyncPrograms |-> ""],
     lib |-> [n \in SyncPrograms |-> NoLib],
     toml |-> [exists |-> FALSE, programs |-> {},
               program_ids |-> [n \in SyncPrograms |-> ""]]]

\* keys sync before it is run
SyncIdle ==
    [pc |-> "idle", arg |-> <<>>, order |-> <<>>, i |-> 0, program_id |-> "",
     config_ids |-> [n \in SyncPrograms |-> ""], result |-> "", run |-> 0,
     rewrote |-> {}, prev |-> EmptyWs, prev_result |-> ""]

\* run_all_tests before it is called, in a workspace without programs/
SuiteIdle ==
    [pc |-> "idle", listing |-> <<>>, programs |-> <<>>, i |-> 0, cargo |-> "",
     attempts |-> <<>>, failed_programs |-> <<>>, result |-> "", named |-> <<>>]

AuxIdle ==
    /\ job = JobIdle
    /\ wksp = EmptyWs
    /\ sync = SyncIdle
    /\ suite = SuiteIdle

CmdIdle ==
    /\ tree = {}
    /\ procs = [p \in Procs |-> IdleProc]
    /\ unix = TRUE
    /\ test = TestIdle
    /\ AuxIdle

-----------------------------------------------------------------------------
(* Bounds *)

MaxStrLen == 4      \* longest identifier drawn for the case converters
MaxLangs == 2       \* longest requested language list
MaxEntries == 2     \* most entries of target/idl
MaxFields == 2      \* most fields, args or accounts of a drawn descriptor

-----------------------------------------------------------------------------
(* Characters and strings *)

None == <<>>
Some(v) == <<v>>
IsSome(o) == Len(o) > 0
Unwrap(o) == o[1]
UnwrapOr(o, d) == IF IsSome(o) THEN o[1] ELSE d

LowerChars == <<"a", "b", "c", "d", "e", "f", "g", "h", "i", "j", "k", "l", "m",
                "n", "o", "p", "q", "r", "s", "t", "u", "v", "w", "x", "y", "z">>
UpperChars == <<"A", "B", "C", "D", "E", "F", "G", "H", "I", "J", "K", "L", "M",
                "N", "O", "P", "Q", "R", "S", "T", "U", "V", "W", "X", "Y", "Z">>

IndexIn(c, row) == CHOOSE i \in 1..Len(row) : row[i] = c
IsIn(c, row) == \E i \in 1..Len(row) : row[i] = c

\* char::to_uppercase / char::to_lowercase on the characters of the model
ToUpper(c) == IF IsIn(c, LowerChars) THEN UpperChars[IndexIn(c, LowerChars)] ELSE c
ToLower(c) == IF IsIn(c, UpperChars) THEN LowerChars[IndexIn(c, UpperChars)] ELSE c

\* str::split('_'): the segments between underscores, empty ones included;
\* one segment more than there are underscores
RECURSIVE SplitFrom(_, _, _)
SplitFrom(s, i, cur) ==
    IF i > Len(s) THEN <<cur>>
    ELSE IF s[i] = "_" THEN <<cur>> \o SplitFrom(s, i + 1, <<>>)
    ELSE SplitFrom(s, i + 1, Append(cur, s[i]))

split(s) == SplitFrom(s, 1, <<>>)

\* the closure of to_pascal_case: chars.next() is None => String::new(),
\* Some(first) => first.to_uppercase() + chars.as_str()
CapWord(word) ==
    IF Len(word) = 0 THEN <<>>
    ELSE <<ToUpper(Head(word))>> \o Tail(word)

RECURSIVE Collect(_)
Collect(words) ==
    IF Len(words) = 0 THEN <<>> ELSE Head(words) \o Collect(Tail(words))

\* A to_pascal_case that joins the segments without capitalising the ones
\* after the first
to_pascal_case_first_only(s) ==
    LET ws == split(s)
    IN  Collect([i \in 1..Len(ws) |-> IF i = 1 THEN CapWord(ws[i]) ELSE ws[i]])

\* bindings.rs to_pascal_case
to_pascal_case(s) ==
    LET ws == split(s)
    IN  Collect([i \in 1..Len(ws) |-> CapWord(ws[i])])

\* scaffold.rs to_pascal_case (a second copy of the function)
scaffold_to_pascal_case(s) ==
    LET ws == split(s)
    IN  Collect([i \in 1..Len(ws) |-> CapWord(ws[i])])

\* bindings.rs to_camel_case
to_camel_case(s) ==
    LET pascal == to_pascal_case(s)
    IN  IF Len(pascal) = 0 THEN <<>>
        ELSE <<ToLower(Head(pascal))>> \o Tail(pascal)

-----------------------------------------------------------------------------
(* The TypeScript emitter's pure functions *)

s_unknown == <<"u", "n", "k", "n", "o", "w", "n">>
s_Unknown == <<"U", "n", "k", "n", "o", "w", "n">>
s_Args == <<"A", "r", "g", "s">>

\* the literal 11111111111111111111111111111111 of generate_typescript_client
PlaceholderLen == 32
Placeholder == [i \in 1..PlaceholderLen |-> "1"]

\* A type mapper that knows the unsigned integers only
map_to_typescript_type_unsigned_only(rust_type) ==
    CASE rust_type \in {"u8", "u16", "u32", "u64", "u128"} -> "number"
      [] rust_type = "bool" -> "boolean"
      [] rust_type = "String" -> "string"
      [] rust_type \in {"Pubkey", "publicKey"} -> "PublicKey"
      [] OTHER -> "any"

\* bindings.rs map_to_typescript_type
map_to_typescript_type(rust_type) ==
    CASE rust_type \in {"u8", "u16", "u32", "u64", "u128",
                        "i8", "i16", "i32", "i64", "i128"} -> "number"
      [] rust_type = "bool" -> "boolean"
      [] rust_type = "String" -> "string"
      [] rust_type \in {"Pubkey", "publicKey"} -> "PublicKey"
      [] OTHER -> "any"

\* the "  {camel(name)}: {type};" lines of an interface, one per field
InterfaceFields(fields) ==
    [i \in 1..Len(fields) |->
        [name |-> to_camel_case(UnwrapOr(fields[i].name, s_unknown)),
         type |-> map_to_typescript_type(UnwrapOr(fields[i].type, "unknown"))]]

\* bindings.rs generate_typescript_type: "export interface {Pascal} {...}"
generate_typescript_type(account) ==
    [name |-> to_pascal_case(UnwrapOr(account.name, s_Unknown)),
     fields |-> IF IsSome(account.fields)
                THEN InterfaceFields(Unwrap(account.fields)) ELSE <<>>]

\* bindings.rs generate_instruction_args_type:
\* "export interface {Pascal}Args {...}"
generate_instruction_args_type(instruction) ==
    [name |-> to_pascal_case(UnwrapOr(instruction.name, s_unknown)) \o s_Args,
     fields |-> IF IsSome(instruction.args)
                THEN InterfaceFields(Unwrap(instruction.args)) ELSE <<>>]

\* an args array that is present and not empty
HasArgs(instruction) ==
    IsSome(instruction.args) /\ Len(Unwrap(instruction.args)) > 0

\* bindings.rs generate_typescript_types: the interfaces of types.ts, the
\* account types first, then one Args type per instruction with args
generate_typescript_types(idl) ==
    LET accts == IF IsSome(idl.accounts) THEN Unwrap(idl.accounts) ELSE <<>>
        ins == IF IsSome(idl.instructions) THEN Unwrap(idl.instructions) ELSE <<>>
        withArgs == SelectSeq(ins, HasArgs)
    IN  [i \in 1..Len(accts) |-> generate_typescript_type(accts[i])]
        \o [i \in 1..Len(withArgs) |-> generate_instruction_args_type(withArgs[i])]

\* A generate_typescript_method that adds the args parameter whenever the
\* args array is present, empty or not
generate_typescript_method_args_if_present(instruction) ==
    LET name == UnwrapOr(instruction.name, s_unknown)
        pascal_name == to_pascal_case(name)
        accounts == IF IsSome(instruction.accounts)
                    THEN Unwrap(instruction.accounts) ELSE <<>>
        account_name(a) == UnwrapOr(a.name, s_unknown)
    IN  [name |-> to_camel_case(name),
         params |->
            <<[name |-> "accounts", type |-> <<>>,
               fields |-> [i \in 1..Len(accounts) |->
                              to_camel_case(account_name(accounts[i]))]]>>
            \o (IF IsSome(instruction.args)
                THEN <<[name |-> "args", type |-> pascal_name \o s_Args,
                        fields |-> <<>>]>>
                ELSE <<>>),
         keys |-> [i \in 1..Len(accounts) |->
                     [pubkey |-> to_camel_case(account_name(accounts[i])),
                      isWritable |-> UnwrapOr(accounts[i].isMut, FALSE),
                      isSigner |-> UnwrapOr(accounts[i].isSigner, FALSE)]]]

\* bindings.rs generate_typescript_method: "async {camel}(accounts: {...}
\* [, args: {Pascal}Args]) { ... keys: [ {pubkey, isWritable, isSigner}, ... ] }"
generate_typescript_method(instruction) ==
    LET name == UnwrapOr(instruction.name, s_unknown)
        pascal_name == to_pascal_case(name)
        accounts == IF IsSome(instruction.accounts)
                    THEN Unwrap(instruction.accounts) ELSE <<>>
        account_name(a) == UnwrapOr(a.name, s_unknown)
    IN  [name |-> to_camel_case(name),
         params |->
            <<[name |-> "accounts", type |-> <<>>,
               fields |-> [i \in 1..Len(accounts) |->
                              to_camel_case(account_name(accounts[i]))]]>>
            \o (IF HasArgs(instruction)
                THEN <<[name |-> "args", type |-> pascal_name \o s_Args,
                        fields |-> <<>>]>>
                ELSE <<>>),
         keys |-> [i \in 1..Len(accounts) |->
                     [pubkey |-> to_camel_case(account_name(accounts[i])),
                      isWritable |-> UnwrapOr(accounts[i].isMut, FALSE),
                      isSigner |-> UnwrapOr(accounts[i].isSigner, FALSE)]]]

\* bindings.rs generate_type_imports: the Pascal names of the account types
\* that have a string name (joined with ", " in the import line)
HasName(account) == IsSome(account.name)

generate_type_imports(idl) ==
    LET accts == IF IsSome(idl.accounts) THEN Unwrap(idl.accounts) ELSE <<>>
        named == SelectSeq(accts, HasName)
    IN  [i \in 1..Len(named) |-> to_pascal_case(Unwrap(named[i].name))]

\* The text of a generated file: the fixed template it is formatted from,
\* the values substituted for the template's {} in order (slots), and the
\* parts appended piece by piece (imported names, methods, interfaces).
Text(tmpl, slots) ==
    [tmpl |-> tmpl, slots |-> slots, imports |-> <<>>, methods |-> <<>>,
     types |-> <<>>]

\* bindings.rs generate_typescript_client: index.ts; the slots are
\* PublicKey('{}') and "class {}Client".
generate_typescript_client(idl, program_name) ==
    LET program_id == UnwrapOr(idl.address, Placeholder)
        ins == IF IsSome(idl.instructions) THEN Unwrap(idl.instructions) ELSE <<>>
    IN  [tmpl |-> "index.ts",
         slots |-> <<program_id, to_pascal_case(program_name)>>,
         imports |-> generate_type_imports(idl),
         methods |-> [i \in 1..Len(ins) |-> generate_typescript_method(ins[i])],
         types |-> <<>>]

-----------------------------------------------------------------------------
(* The case converters applied to drawn identifiers *)

CaseAlphabet == {"a", "b", "_", "T"}

RECURSIVE SeqsUpTo(_, _)
SeqsUpTo(S, n) ==
    IF n = 0 THEN {<<>>}
    ELSE LET shorter == SeqsUpTo(S, n - 1)
         IN  shorter \cup {Append(q, e) : q \in shorter, e \in S}

s_mint_to == <<"m", "i", "n", "t", "_", "t", "o">>
s_a__b == <<"a", "_", "_", "b">>

CaseInputs == SeqsUpTo(CaseAlphabet, MaxStrLen) \cup {s_mint_to, s_a__b}

GenIdle ==
    /\ languages = <<>>
    /\ inWorkspace = FALSE
    /\ idlDirExists = FALSE
    /\ idlDir = <<>>
    /\ pc = "off"
    /\ idl_files = <<>>
    /\ di = 0
    /\ li = 0
    /\ completed = 0
    /\ files = {}
    /\ writes = <<>>
    /\ attempts = <<>>
    /\ warnings = <<>>
    /\ result = "off"
    /\ run = 0
    /\ first = {}

InitCase ==
    /\ GenIdle
    /\ CmdIdle
    /\ fpc = "ready"
    /\ fin \in CaseInputs
    /\ fout = <<>>

ApplyCase ==
    /\ fpc = "ready"
    /\ fpc' = "applied"
    /\ fout' = [pascal |-> to_pascal_case(fin),
                camel |-> to_camel_case(fin),
                scaffold |-> scaffold_to_pascal_case(fin)]
    /\ UNCHANGED <<fin, genVars, cmdVars, auxVars>>

NextCase == ApplyCase

SpecCase == InitCase /\ [][NextCase]_vars

-----------------------------------------------------------------------------
(* The TypeScript emitter applied to drawn IDL documents *)

s_init == <<"i", "n", "i", "t">>
s_payer == <<"p", "a", "y", "e", "r">>
s_vault == <<"v", "a", "u", "l", "t">>
s_rent == <<"r", "e", "n", "t">>
s_amount == <<"a", "m", "t">>
s_memo == <<"m", "e", "m", "o">>
s_state == <<"c", "t", "r", "_", "s", "t", "a", "t", "e">>
s_count == <<"c", "o", "u", "n", "t">>
s_ctr == <<"c", "t", "r">>
s_my_v == <<"m", "y", "_", "v">>
s_addr == <<"F", "g", "6", "P">>

IntegerTags == {"u8", "u16", "u32", "u64", "u128", "i8", "i16", "i32", "i64", "i128"}
PublicKeyTags == {"Pubkey", "publicKey"}
OtherTags == {"Vec<u8>", "f64", "string"}
Tags == IntegerTags \cup {"bool", "String"} \cup PublicKeyTags \cup OtherTags

OptionOf(S) == {None} \cup {Some(v) : v \in S}

MetaPool ==
    {[name |-> Some(s_payer), isMut |-> Some(TRUE), isSigner |-> Some(TRUE)],
     [name |-> Some(s_vault), isMut |-> Some(TRUE), isSigner |-> Some(FALSE)],
     [name |-> Some(s_rent), isMut |-> None, isSigner |-> None]}

ArgPool ==
    {[name |-> Some(s_amount), type |-> Some("u64")],
     [name |-> Some(s_memo), type |-> Some("String")]}

FieldPool == {[name |-> Some(s_count), type |-> t] : t \in OptionOf(Tags)}

DrawnInstructions ==
    [name : {None, Some(s_mint_to), Some(s_init)},
     accounts : OptionOf(SeqsUpTo(MetaPool, MaxFields)),
     args : OptionOf(SeqsUpTo(ArgPool, MaxFields))]

DrawnAccountTypes ==
    [name : {None, Some(s_state)},
     fields : OptionOf(SeqsUpTo(FieldPool, MaxFields))]

DrawnIdls ==
    [address : {None, Some(s_addr)},
     instructions : {Some(<<ins>>) : ins \in DrawnInstructions},
     accounts : {None}]
    \cup
    [address : {None, Some(s_addr)},
     instructions : {None},
     accounts : {Some(<<acct>>) : acct \in DrawnAccountTypes}]

InitTs ==
    /\ GenIdle
    /\ CmdIdle
    /\ fpc = "ready"
    /\ fin \in [idl : DrawnIdls, program_name : {s_my_v}]
    /\ fout = <<>>

ApplyTs ==
    /\ fpc = "ready"
    /\ fpc' = "applied"
    /\ fout' = [client |-> generate_typescript_client(fin.idl, fin.program_name),
                types |-> generate_typescript_types(fin.idl)]
    /\ UNCHANGED <<fin, genVars, cmdVars, auxVars>>

NextTs == ApplyTs

SpecTs == InitTs /\ [][NextTs]_vars

-----------------------------------------------------------------------------
(* validation.rs validate_language_name *)

l_typescript == <<"t", "y", "p", "e", "s", "c", "r", "i", "p", "t">>
l_ts == <<"t", "s">>
l_swift == <<"s", "w", "i", "f", "t">>
l_kotlin == <<"k", "o", "t", "l", "i", "n">>
l_rust == <<"r", "u", "s", "t">>
l_cobol == <<"c", "o", "b", "o", "l">>
l_TypeScript == <<"T", "y", "p", "e", "S", "c", "r", "i", "p", "t">>

\* str::to_lowercase
to_lowercase(s) == [i \in 1..Len(s) |-> ToLower(s[i])]

valid_languages == {l_typescript, l_ts, l_swift, l_kotlin, l_rust}

\* Ok(()) iff the lowercased name is one of valid_languages
validate_language_name(language) == to_lowercase(language) \in valid_languages

-----------------------------------------------------------------------------
(* The emitters: the files each one writes, in the order it writes them *)

\* A path under the output root: {root}/{program}/{rel}, where rel may have
\* one directory named after relarg ("Sources/{}SDK/Client.swift")
OutPath(root, program, rel, relarg) ==
    [root |-> root, program |-> program, rel |-> rel, relarg |-> relarg]

Write(path, content) == [path |-> path, content |-> content]

\* bindings.rs generate_typescript_bindings, after the IDL has parsed
TypescriptWrites(idl_path, program_name) ==
    <<Write(OutPath("typescript", program_name, "index.ts", <<>>),
            generate_typescript_client(idl_path.idl, program_name)),
      Write(OutPath("typescript", program_name, "types.ts", <<>>),
            [Text("types.ts", <<>>) EXCEPT
                !.types = generate_typescript_types(idl_path.idl)]),
      Write(OutPath("typescript", program_name, "package.json", <<>>),
            Text("package.json", <<program_name, program_name>>)),
      Write(OutPath("typescript", program_name, "tsconfig.json", <<>>),
            Text("tsconfig.json", <<>>))>>

\* bindings.rs generate_swift_bindings
SwiftWrites(idl_path, program_name) ==
    LET pascal == to_pascal_case(program_name)
    IN  <<Write(OutPath("swift", program_name, "Package.swift", <<>>),
                Text("Package.swift",
                     <<pascal, pascal, pascal, pascal, pascal, pascal>>)),
          Write(OutPath("swift", program_name, "Sources/{}SDK/Client.swift", pascal),
                Text("Client.swift", <<pascal, idl_path.stem>>))>>

\* bindings.rs generate_kotlin_bindings
KotlinWrites(idl_path, program_name) ==
    <<Write(OutPath("kotlin", program_name, "build.gradle.kts", <<>>),
            Text("build.gradle.kts", <<program_name>>)),
      Write(OutPath("kotlin", program_name,
                    "src/main/kotlin/com/typhoon/{}/Client.kt", program_name),
            Text("Client.kt",
                 <<program_name, to_pascal_case(program_name), idl_path.stem>>))>>

\* bindings.rs generate_rust_bindings
RustWrites(idl_path, program_name) ==
    LET pascal == to_pascal_case(program_name)
    IN  <<Write(OutPath("rust", program_name, "Cargo.toml", <<>>),
                Text("Cargo.toml", <<program_name>>)),
          Write(OutPath("rust", program_name, "src/lib.rs", <<>>),
                Text("lib.rs", <<idl_path.stem, pascal, pascal>>))>>

-----------------------------------------------------------------------------
(* bindings.rs generate_bindings *)

LangNames == {l_typescript, l_ts, l_swift, l_kotlin, l_rust, l_cobol, l_TypeScript}

s_bad == <<"b", "a", "d">>
s_raw == <<"r", "a", "w">>
s_note == <<"n", "o", "t", "e">>

EmptyIdl == [address |-> None, instructions |-> None, accounts |-> None]

\* The entries target/idl may hold. stem is the file stem, utf8 whether the
\* stem is valid UTF-8 (file_stem().to_str() is Some), ext the extension,
\* parses whether the content is valid JSON, idl the parsed content.
e_ctr ==
    [stem |-> s_ctr, utf8 |-> TRUE, ext |-> Some("json"), parses |-> TRUE,
     idl |-> [address |-> Some(s_addr),
              instructions |-> Some(<<
                  [name |-> Some(s_mint_to),
                   accounts |-> Some(<<
                       [name |-> Some(s_payer), isMut |-> Some(TRUE),
                        isSigner |-> Some(TRUE)],
                       [name |-> Some(s_vault), isMut |-> Some(TRUE),
                        isSigner |-> Some(FALSE)]>>),
                   args |-> Some(<<[name |-> Some(s_amount), type |-> Some("u64")]>>)],
                  [name |-> Some(s_init),
                   accounts |-> Some(<<
                       [name |-> Some(s_payer), isMut |-> Some(TRUE),
                        isSigner |-> Some(TRUE)]>>),
                   args |-> Some(<<>>)]>>),
              accounts |-> Some(<<
                  [name |-> Some(s_state),
                   fields |-> Some(<<[name |-> Some(s_count), type |-> Some("u64")]>>)]>>)]]

e_my_v ==
    [stem |-> s_my_v, utf8 |-> TRUE, ext |-> Some("json"), parses |-> TRUE,
     idl |-> [address |-> None,
              instructions |-> Some(<<
                  [name |-> Some(s_init),
                   accounts |-> Some(<<
                       [name |-> Some(s_vault), isMut |-> Some(FALSE),
                        isSigner |-> Some(FALSE)]>>),
                   args |-> None]>>),
              accounts |-> None]]

e_bad ==
    [stem |-> s_bad, utf8 |-> TRUE, ext |-> Some("json"), parses |-> FALSE,
     idl |-> EmptyIdl]

e_raw ==
    [stem |-> s_raw, utf8 |-> FALSE, ext |-> Some("json"), parses |-> TRUE,
     idl |-> EmptyIdl]

e_note ==
    [stem |-> s_note, utf8 |-> TRUE, ext |-> Some("txt"), parses |-> FALSE,
     idl |-> EmptyIdl]

EntryPool == {e_ctr, e_my_v, e_bad, e_raw, e_note}

Distinct(q) == \A i, j \in 1..Len(q) : i # j => q[i] # q[j]

Listings == {q \in SeqsUpTo(EntryPool, MaxEntries) : Distinct(q)}

FunIdle ==
    /\ fpc = "idle"
    /\ fin = <<>>
    /\ fout = <<>>

Init ==
    /\ languages \in SeqsUpTo(LangNames, MaxLangs)
    /\ inWorkspace \in BOOLEAN
    /\ idlDirExists \in BOOLEAN
    /\ idlDir \in (IF idlDirExists THEN Listings ELSE {<<>>})
    /\ pc = "validate"
    /\ idl_files = <<>>
    /\ di = 0
    /\ li = 0
    /\ completed = 0
    /\ files = {}
    /\ writes = <<>>
    /\ attempts = <<>>
    /\ warnings = <<>>
    /\ result = "running"
    /\ run = 1
    /\ first = {}
    /\ FunIdle
    /\ CmdIdle

\* return Err(kind) / return Ok(())
Return(kind) ==
    /\ pc' = "done"
    /\ result' = kind

\* lines 17-19: for language in languages { validate_language_name(language)?; }
Validate ==
    /\ pc = "validate"
    /\ IF \A i \in 1..Len(languages) : validate_language_name(languages[i])
       THEN pc' = "workspace" /\ UNCHANGED result
       ELSE Return("unsupported_language")
    /\ UNCHANGED <<languages, inWorkspace, idlDirExists, idlDir, idl_files, di, li,
                   completed, files, writes, attempts, warnings, funVars, rerunVars,
                   cmdVars, auxVars>>

\* lines 21-22: find_workspace_root()?.ok_or_else("Not in a Typhoon workspace")?
FindWorkspace ==
    /\ pc = "workspace"
    /\ IF inWorkspace
       THEN pc' = "discover" /\ UNCHANGED result
       ELSE Return("not_in_workspace")
    /\ UNCHANGED <<languages, inWorkspace, idlDirExists, idlDir, idl_files, di, li,
                   completed, files, writes, attempts, warnings, funVars, rerunVars,
                   cmdVars, auxVars>>

\* Whether a filesystem call succeeds when nothing the model holds makes it
\* fail (permissions, disk space): either, in a first run; a repeated run
\* is in the environment in which the first run's calls succeeded.
CallsOk == IF run = 1 THEN BOOLEAN ELSE {TRUE}

\* A filter that keeps every entry that has an extension
HasAnyExt(entry) == IsSome(entry.ext)

\* lines 48-57: path.extension()?.to_str()? == "json"
HasJsonExt(entry) == IsSome(entry.ext) /\ Unwrap(entry.ext) = "json"

\* lines 39-62: create the output directory, find the IDL files.
\* ok: create_dir_all and read_dir succeed.
Discover ==
    /\ pc = "discover"
    /\ \E ok \in CallsOk :
        LET found == SelectSeq(idlDir, HasJsonExt)
        IN  IF ~ok THEN Return("io") /\ UNCHANGED <<idl_files, di>>
            ELSE IF ~idlDirExists THEN Return("no_idl") /\ UNCHANGED <<idl_files, di>>
            ELSE IF found = <<>>
                 THEN Return("no_idl") /\ idl_files' = found /\ UNCHANGED di
            ELSE /\ idl_files' = found
                 /\ di' = 1
                 /\ pc' = "program"
                 /\ UNCHANGED result
    /\ UNCHANGED <<languages, inWorkspace, idlDirExists, idlDir, li,
                   completed, files, writes, attempts, warnings, funVars, rerunVars,
                   cmdVars, auxVars>>

\* lines 75-79: the next idl_path; program_name is its file stem
NextProgram ==
    /\ pc = "program"
    /\ di <= Len(idl_files)
    /\ IF idl_files[di].utf8
       THEN pc' = "language" /\ li' = 1 /\ UNCHANGED result
       ELSE Return("invalid_filename") /\ UNCHANGED li
    /\ UNCHANGED <<languages, inWorkspace, idlDirExists, idlDir, idl_files, di,
                   completed, files, writes, attempts, warnings, funVars, rerunVars,
                   cmdVars, auxVars>>

\* An end of the inner loop that moves on by two programs
EndLanguagesSkipping ==
    /\ pc = "language"
    /\ li > Len(languages)
    /\ di' = di + 2
    /\ pc' = "program"
    /\ UNCHANGED <<languages, inWorkspace, idlDirExists, idlDir, idl_files, li,
                   completed, files, writes, attempts, warnings, result, funVars, rerunVars,
                   cmdVars, auxVars>>

\* line 81/106: the inner loop is over; on to the next idl_path
EndLanguages ==
    /\ pc = "language"
    /\ li > Len(languages)
    /\ di' = di + 1
    /\ pc' = "program"
    /\ UNCHANGED <<languages, inWorkspace, idlDirExists, idlDir, idl_files, li,
                   completed, files, writes, attempts, warnings, result, funVars, rerunVars,
                   cmdVars, auxVars>>

\* fs::write: the file at path now holds content, whatever it held before
RECURSIVE WriteAll(_, _)
WriteAll(fs, ws) ==
    IF Len(ws) = 0 THEN fs
    ELSE WriteAll({f \in fs : f.path # Head(ws).path} \cup {Head(ws)}, Tail(ws))

\* the package directories that exist in an output tree
DirsOf(fs) == {<<f.path.root, f.path.program>> : f \in fs}

\* A directory creation that fails when the directory exists
create_dir_only_new(fs, dir) == IF dir \in DirsOf(fs) THEN FALSE ELSE TRUE

\* fs::create_dir_all(dir): Ok when the directory is already there, Ok when
\* it had to be created
create_dir_all(fs, dir) == IF dir \in DirsOf(fs) THEN TRUE ELSE TRUE

\* The number of writes an emitter call may complete: none when its
\* directory cannot be created, else any number in a first run (the call
\* after them fails) and all of them in a repeated run.
EmitterOutcomes(planned) ==
    IF ~create_dir_all(files, <<planned[1].path.root, planned[1].path.program>>)
    THEN {0}
    ELSE IF run = 1 THEN 0..Len(planned) ELSE {Len(planned)}

\* One call of an emitter for (idl_files[di], languages[li]): either every
\* filesystem call succeeds and the pair is completed, or the call after the
\* first k writes fails and the error is returned from generate_bindings by
\* the `?` of the call (lines 89, 92, 95, 98).
RunEmitter(planned) ==
    /\ attempts' = Append(attempts, <<di, li>>)
    /\ \E k \in EmitterOutcomes(planned) :
        LET done == SubSeq(planned, 1, k)
        IN  /\ files' = WriteAll(files, done)
            /\ writes' = writes \o [i \in 1..k |->
                            [d |-> di, l |-> li, path |-> done[i].path]]
            /\ IF k = Len(planned)
               THEN /\ completed' = completed + 1
                    /\ li' = li + 1
                    /\ UNCHANGED <<pc, result>>
               ELSE /\ Return("io")
                    /\ UNCHANGED <<completed, li>>

InLoop == pc = "language" /\ li <= Len(languages)

program_name == idl_files[di].stem

\* "typescript" | "ts" => generate_typescript_bindings(...)?
\* The IDL is read and parsed after the directory is created and before
\* anything is written.
EmitTypescript ==
    /\ InLoop
    /\ languages[li] \in {l_typescript, l_ts}
    /\ \/ /\ idl_files[di].parses
          /\ RunEmitter(TypescriptWrites(idl_files[di], program_name))
       \/ /\ ~idl_files[di].parses
          /\ attempts' = Append(attempts, <<di, li>>)
          /\ \E ioOk \in CallsOk : Return(IF ioOk THEN "parse" ELSE "io")
          /\ UNCHANGED <<files, writes, completed, li>>
    /\ UNCHANGED <<languages, inWorkspace, idlDirExists, idlDir, idl_files, di,
                   warnings, funVars, rerunVars,
                   cmdVars, auxVars>>

\* "swift" => generate_swift_bindings(...)?
EmitSwift ==
    /\ InLoop
    /\ languages[li] = l_swift
    /\ RunEmitter(SwiftWrites(idl_files[di], program_name))
    /\ UNCHANGED <<languages, inWorkspace, idlDirExists, idlDir, idl_files, di,
                   warnings, funVars, rerunVars,
                   cmdVars, auxVars>>

\* "kotlin" => generate_kotlin_bindings(...)?
EmitKotlin ==
    /\ InLoop
    /\ languages[li] = l_kotlin
    /\ RunEmitter(KotlinWrites(idl_files[di], program_name))
    /\ UNCHANGED <<languages, inWorkspace, idlDirExists, idlDir, idl_files, di,
                   warnings, funVars, rerunVars,
                   cmdVars, auxVars>>

\* "rust" => generate_rust_bindings(...)?
EmitRust ==
    /\ InLoop
    /\ languages[li] = l_rust
    /\ RunEmitter(RustWrites(idl_files[di], program_name))
    /\ UNCHANGED <<languages, inWorkspace, idlDirExists, idlDir, idl_files, di,
                   warnings, funVars, rerunVars,
                   cmdVars, auxVars>>

\* the names the match of lines 87-99 has an arm for
Dispatched == {l_typescript, l_ts, l_swift, l_kotlin, l_rust}

\* _ => { eprintln!("Unsupported language"); continue; }
SkipUnsupported ==
    /\ InLoop
    /\ languages[li] \notin Dispatched
    /\ warnings' = Append(warnings, languages[li])
    /\ li' = li + 1
    /\ UNCHANGED <<languages, inWorkspace, idlDirExists, idlDir, idl_files, di, pc,
                   completed, files, writes, attempts, result, funVars, rerunVars,
                   cmdVars, auxVars>>

\* lines 109-121: the outer loop is over; Ok(())
Finish ==
    /\ pc = "program"
    /\ di > Len(idl_files)
    /\ Return("ok")
    /\ UNCHANGED <<languages, inWorkspace, idlDirExists, idlDir, idl_files, di, li,
                   completed, files, writes, attempts, warnings, funVars, rerunVars,
                   cmdVars, auxVars>>

Next ==
    \/ Validate
    \/ FindWorkspace
    \/ Discover
    \/ NextProgram
    \/ EmitTypescript
    \/ EmitSwift
    \/ EmitKotlin
    \/ EmitRust
    \/ SkipUnsupported
    \/ EndLanguages
    \/ Finish

Spec == Init /\ [][Next]_vars

\* The command is invoked again after a run that returned Ok(()), with the
\* same languages, the same target/idl and the same output root.
Rerun ==
    /\ run = 1
    /\ pc = "done"
    /\ result = "ok"
    /\ run' = 2
    /\ first' = files
    /\ pc' = "validate"
    /\ idl_files' = <<>>
    /\ di' = 0
    /\ li' = 0
    /\ completed' = 0
    /\ writes' = <<>>
    /\ attempts' = <<>>
    /\ warnings' = <<>>
    /\ result' = "running"
    /\ UNCHANGED <<languages, inWorkspace, idlDirExists, idlDir, files, funVars, cmdVars, auxVars>>

NextRerun ==
    \/ Next
    \/ Rerun

SpecRerun == Init /\ [][NextRerun]_vars

-----------------------------------------------------------------------------
(* C8 *)

\* The characters of s read left to right: an underscore contributes
\* nothing, a character that starts a segment (first of the string or right
\* after an underscore) is uppercased, any other character is kept.
RECURSIVE PascalByPosition(_, _)
PascalByPosition(s, i) ==
    IF i > Len(s) THEN <<>>
    ELSE (IF s[i] = "_" THEN <<>>
          ELSE IF i = 1 \/ s[i - 1] = "_" THEN <<ToUpper(s[i])>>
          ELSE <<s[i]>>) \o PascalByPosition(s, i + 1)

\* C8: to_pascal_case(s) is the concatenation of the non-empty '_'-segments of
\* s with their first character uppercased; to_camel_case(s) is that with its
\* first character lowercased; pascal("mint_to") = "MintTo",
\* camel("mint_to") = "mintTo", pascal("") = "", pascal("a") = "A",
\* pascal("a__b") = "AB"; scaffold.rs's copy agrees with bindings.rs's.
C8_CaseConversion ==
    fpc = "applied" =>
        LET want == PascalByPosition(fin, 1)
        IN  /\ fout.pascal = want
            /\ fout.camel = (IF Len(want) = 0 THEN <<>>
                             ELSE <<ToLower(want[1])>> \o Tail(want))
            /\ fout.scaffold = fout.pascal
            /\ \A i \in 1..Len(fout.pascal) : fout.pascal[i] # "_"
            /\ fin = s_mint_to =>
                    /\ fout.pascal = <<"M", "i", "n", "t", "T", "o">>
                    /\ fout.camel = <<"m", "i", "n", "t", "T", "o">>
            /\ fin = <<>> => fout.pascal = <<>>
            /\ fin = <<"a">> => fout.pascal = <<"A">>
            /\ fin = s_a__b => fout.pascal = <<"A", "B">>

C8_Witness ==
    /\ fpc = "applied"
    /\ fin = s_a__b
    /\ fout.pascal = <<"A", "B">>
    /\ fout.camel = <<"a", "B">>

-----------------------------------------------------------------------------
(* C6 *)

IsExtraParam(p) == p.name # "accounts"

DrawnInstructionList ==
    IF IsSome(fin.idl.instructions) THEN Unwrap(fin.idl.instructions) ELSE <<>>

\* C6: the generated client method has an additional arguments-record
\* parameter, typed PascalCase(instruction.name) + "Args", if and only if
\* instruction.args is a non-empty sequence; there is never more than one.
C6_ArgsParameterGating ==
    fpc = "applied" =>
        /\ Len(fout.client.methods) = Len(DrawnInstructionList)
        /\ \A i \in 1..Len(DrawnInstructionList) :
            LET ins == DrawnInstructionList[i]
                nonEmpty == ins.args # None /\ ins.args # Some(<<>>)
                extra == SelectSeq(fout.client.methods[i].params, IsExtraParam)
            IN  /\ Len(extra) = (IF nonEmpty THEN 1 ELSE 0)
                /\ (nonEmpty /\ IsSome(ins.name)) =>
                      extra[1].type = PascalByPosition(Unwrap(ins.name), 1) \o s_Args

C6_Witness ==
    /\ fpc = "applied"
    /\ Len(DrawnInstructionList) = 1
    /\ DrawnInstructionList[1].name = Some(s_mint_to)
    /\ Len(UnwrapOr(DrawnInstructionList[1].args, <<>>)) = 1
    /\ Len(fout.client.methods[1].params) = 2
    /\ fout.client.methods[1].params[2].type
          = <<"M", "i", "n", "t", "T", "o", "A", "r", "g", "s">>

-----------------------------------------------------------------------------
(* C7 *)

\* the mapping table of the claim
ClaimedTypeName(tag) ==
    IF tag \in IntegerTags THEN "number"
    ELSE IF tag = "bool" THEN "boolean"
    ELSE IF tag = "String" THEN "string"
    ELSE IF tag \in PublicKeyTags THEN "PublicKey"
    ELSE "any"

DrawnAccountTypeList ==
    IF IsSome(fin.idl.accounts) THEN Unwrap(fin.idl.accounts) ELSE <<>>

-----------------------------------------------------------------------------
(* Claims about generate_bindings *)

\* the discovered document a written file belongs to
DocOf(f) == CHOOSE e \in {idl_files[d] : d \in 1..Len(idl_files)} : e.stem = f.path.program

\* the client source file of each language's package
ClientTmpls == {"index.ts", "Client.swift", "Client.kt", "lib.rs"}

\* the client sources emitted for documents that are valid JSON
ClientSources == {f \in files : f.content.tmpl \in ClientTmpls /\ DocOf(f).parses}

EmitterFailed == result \in {"io", "parse"} /\ Len(attempts) > 0

\* C1: with languages ["rust", "cobol"] and one valid IDL document the run
\* emits the rust package, skips cobol with a warning and returns success.
C1_UnsupportedLanguageNotFatal ==
    (/\ pc = "done"
     /\ languages = <<l_rust, l_cobol>>
     /\ inWorkspace
     /\ idlDirExists
     /\ idlDir = <<e_ctr>>
     /\ result # "io")
    => /\ result = "ok"
       /\ warnings = <<l_cobol>>
       /\ \E f \in files : f.path = OutPath("rust", s_ctr, "src/lib.rs", <<>>)

\* every language of the list has an arm in the dispatch
AllDispatched == \A i \in 1..Len(languages) : languages[i] \in Dispatched

\* D x L in document-outer, language-inner order
PairsInOrder(D, L) ==
    [k \in 1..(D * L) |-> <<((k - 1) \div L) + 1, ((k - 1) % L) + 1>>]

IsPrefix(a, b) ==
    /\ Len(a) <= Len(b)
    /\ \A i \in 1..Len(a) : a[i] = b[i]

AttemptedOnceInOrder ==
    LET want == PairsInOrder(Len(idl_files), Len(languages))
    IN  /\ IsPrefix(attempts, want)
        /\ (pc = "done" /\ idl_files # <<>> /\ ~EmitterFailed) =>
              /\ result = "ok"
              /\ attempts = want
              /\ completed = Len(want)

C3_FailureDoesNotAbortBatch ==
    (/\ pc = "done"
     /\ EmitterFailed
     /\ AllDispatched
     /\ \A d \in 1..Len(idl_files) : idl_files[d].utf8)
    => \A d \in 1..Len(idl_files) : \A l \in 1..Len(languages) :
          idl_files[d].parses => \E k \in 1..Len(attempts) : attempts[k] = <<d, l>>

\* target/idl is missing or holds no entry with extension json
NoInput ==
    \/ ~idlDirExists
    \/ \A i \in 1..Len(idlDir) : idlDir[i].ext # Some("json")

\* C4: if target/idl is missing or holds no file with extension json, the run
\* fails with a fatal error for any language list and emits no package.
C4_NoInputIsFatal ==
    NoInput =>
        /\ files = {}
        /\ attempts = <<>>
        /\ pc = "done" => result \notin {"ok", "running"}

C4_Witness ==
    /\ pc = "done"
    /\ result = "no_idl"
    /\ idlDirExists
    /\ idlDir = <<e_note>>
    /\ languages = <<l_rust, l_typescript>>
    /\ files = {}

\* the account references the claim expects for an instruction
ClaimedKeys(instruction) ==
    LET accounts == UnwrapOr(instruction.accounts, <<>>)
    IN  [i \in 1..Len(accounts) |->
            [pubkey |-> to_camel_case(UnwrapOr(accounts[i].name, s_unknown)),
             isWritable |-> UnwrapOr(accounts[i].isMut, FALSE),
             isSigner |-> UnwrapOr(accounts[i].isSigner, FALSE)]]

\* C5: for every instruction and every supported target language, the
\* emitted client operation lists the account references in the order of
\* instruction.accounts with writable = isMut and signer = isSigner.
C5_AccountOrderEveryLanguage ==
    \A f \in ClientSources :
        LET ins == UnwrapOr(DocOf(f).idl.instructions, <<>>)
        IN  /\ Len(f.content.methods) = Len(ins)
            /\ \A i \in 1..Len(ins) : f.content.methods[i].keys = ClaimedKeys(ins[i])

\* C9: distinct attempted (program, language) pairs of one run write to
\* disjoint output directories; no pair overwrites a file of another pair.
C9_DisjointOutputs ==
    \A i, j \in 1..Len(writes) :
        (\/ writes[i].d # writes[j].d
         \/ languages[writes[i].l] # languages[writes[j].l])
        => /\ writes[i].path # writes[j].path
           /\ <<writes[i].path.root, writes[i].path.program>>
                 # <<writes[j].path.root, writes[j].path.program>>

\* the slot of each client source template that holds the program identifier
ProgramIdSlot(tmpl) ==
    CASE tmpl = "index.ts" -> 1
      [] tmpl = "Client.swift" -> 2
      [] tmpl = "Client.kt" -> 3
      [] tmpl = "lib.rs" -> 1

\* C10: for every supported target language the program-identifier literal
\* of the client source is the document's metadata.address, or the all-ones
\* placeholder when absent, and it appears exactly once in the file.
C10_ProgramIdIsAddress ==
    \A f \in ClientSources :
        LET want == UnwrapOr(DocOf(f).idl.address, Placeholder)
            slots == f.content.slots
        IN  /\ slots[ProgramIdSlot(f.content.tmpl)] = want
            /\ Cardinality({i \in 1..Len(slots) : slots[i] = want}) = 1

-----------------------------------------------------------------------------
(* The package manifests *)

\* the manifest file of each language's package
ManifestTmpls == {"package.json", "Package.swift", "build.gradle.kts", "Cargo.toml"}

\* The package name a manifest declares: the literal text around the
\* substituted value.  build.gradle.kts declares a group
\* ("com.typhoon.{program_name}") and no name.
ManifestName(content) ==
    CASE content.tmpl = "package.json" ->
            Some([prefix |-> "@typhoon/", base |-> content.slots[1], suffix |-> "-sdk"])
      [] content.tmpl = "Package.swift" ->
            Some([prefix |-> "", base |-> content.slots[1], suffix |-> "SDK"])
      [] content.tmpl = "build.gradle.kts" -> None
      [] content.tmpl = "Cargo.toml" ->
            Some([prefix |-> "", base |-> content.slots[1], suffix |-> "-client"])

\* The version a manifest declares for the package.  Package.swift has no
\* package version (its only versions are swift-tools-version and the
\* dependency's from: "1.0.0").
ManifestVersion(content) ==
    CASE content.tmpl = "package.json" -> Some("0.1.0")
      [] content.tmpl = "Package.swift" -> None
      [] content.tmpl = "build.gradle.kts" -> Some("0.1.0")
      [] content.tmpl = "Cargo.toml" -> Some("0.1.0")

\* The dependencies a manifest declares: literals of the template.
ManifestDependencies(content) ==
    CASE content.tmpl = "package.json" ->
            {"@solana/web3.js ^1.87.0", "@coral-xyz/borsh ^0.29.0",
             "typescript ^5.0.0", "@types/jest ^29.0.0", "jest ^29.0.0"}
      [] content.tmpl = "Package.swift" -> {"solana-swift 1.0.0"}
      [] content.tmpl = "build.gradle.kts" ->
            {"com.solana:solana-kotlin:1.0.0",
             "org.jetbrains.kotlinx:kotlinx-coroutines-core:1.7.0", "kotlin(test)"}
      [] content.tmpl = "Cargo.toml" ->
            {"solana-sdk 2.1", "solana-client 2.1", "borsh 1.5", "thiserror 1.0"}

\* the manifests on disk
Manifests == {f \in files : f.content.tmpl \in ManifestTmpls}

\* C11: every emitted manifest declares the package name {program_name}-sdk
\* (or the language's form of it: scoped, or PascalCase with SDK), the
\* version literal 0.1.0, and the same dependencies whatever the document.
C11_ManifestNameVersion ==
    \A f \in Manifests :
        LET name == ManifestName(f.content)
        IN  /\ IsSome(name)
            /\ Unwrap(name).base \in {f.path.program, to_pascal_case(f.path.program)}
            /\ Unwrap(name).suffix \in {"-sdk", "SDK"}
            /\ ManifestVersion(f.content) = Some("0.1.0")
            /\ \A g \in Manifests :
                g.content.tmpl = f.content.tmpl
                => ManifestDependencies(g.content) = ManifestDependencies(f.content)

-----------------------------------------------------------------------------
(* Regeneration *)

\* C12: a second run of generate_bindings with unchanged IDL documents,
\* languages and output root returns Ok although every output directory and
\* file already exists, and leaves every generated file with the content
\* the first run gave it.
C12_RegenerationIdempotent ==
    (run = 2 /\ pc = "done") => (result = "ok" /\ files = first)

\* a repeated run has rewritten two packages of two files each and returned
C12_Witness ==
    /\ run = 2
    /\ pc = "done"
    /\ result = "ok"
    /\ Len(writes) >= 4
    /\ Cardinality(first) >= 4
    /\ \A w \in 1..Len(writes) : \E f \in first : f.path = writes[w].path

-----------------------------------------------------------------------------
(* utils.rs validate_project_name *)

Digits == <<"0", "1", "2", "3", "4", "5", "6", "7", "8", "9">>

is_ascii_digit(c) == IsIn(c, Digits)

is_ascii_alphanumeric(c) ==
    IsIn(c, LowerChars) \/ IsIn(c, UpperChars) \/ is_ascii_digit(c)

\* name.contains(c)
contains(name, c) == \E i \in 1..Len(name) : name[i] = c

\* name.contains("..")
contains_dotdot(name) ==
    \E i \in 1..(Len(name) - 1) : name[i] = "." /\ name[i + 1] = "."

\* the keywords array of validate_project_name
keywords ==
    {<<"a", "b", "s", "t", "r", "a", "c", "t">>, <<"a", "s">>,
     <<"a", "s", "y", "n", "c">>, <<"a", "w", "a", "i", "t">>,
     <<"b", "e", "c", "o", "m", "e">>, <<"b", "o", "x">>,
     <<"b", "r", "e", "a", "k">>, <<"c", "o", "n", "s", "t">>,
     <<"c", "o", "n", "t", "i", "n", "u", "e">>, <<"c", "r", "a", "t", "e">>,
     <<"d", "o">>, <<"d", "y", "n">>, <<"e", "l", "s", "e">>,
     <<"e", "n", "u", "m">>, <<"e", "x", "t", "e", "r", "n">>,
     <<"f", "a", "l", "s", "e">>, <<"f", "i", "n", "a", "l">>, <<"f", "n">>,
     <<"f", "o", "r">>, <<"i", "f">>, <<"i", "m", "p", "l">>, <<"i", "n">>,
     <<"l", "e", "t">>, <<"l", "o", "o", "p">>, <<"m", "a", "c", "r", "o">>,
     <<"m", "a", "t", "c", "h">>, <<"m", "o", "d">>, <<"m", "o", "v", "e">>,
     <<"m", "u", "t">>, <<"o", "v", "e", "r", "r", "i", "d", "e">>,
     <<"p", "r", "i", "v">>, <<"p", "u", "b">>, <<"r", "e", "f">>,
     <<"r", "e", "t", "u", "r", "n">>, <<"s", "e", "l", "f">>,
     <<"S", "e", "l", "f">>, <<"s", "t", "a", "t", "i", "c">>,
     <<"s", "t", "r", "u", "c", "t">>, <<"s", "u", "p", "e", "r">>,
     <<"t", "r", "a", "i", "t">>, <<"t", "r", "u", "e">>, <<"t", "r", "y">>,
     <<"t", "y", "p", "e">>, <<"t", "y", "p", "e", "o", "f">>,
     <<"u", "n", "s", "a", "f", "e">>, <<"u", "n", "s", "i", "z", "e", "d">>,
     <<"u", "s", "e">>, <<"v", "i", "r", "t", "u", "a", "l">>,
     <<"w", "h", "e", "r", "e">>, <<"w", "h", "i", "l", "e">>,
     <<"y", "i", "e", "l", "d">>}

\* A validation that accepts Rust keywords
validate_project_name_without_keywords(name) ==
    IF Len(name) = 0 THEN "name cannot be empty"
    ELSE IF is_ascii_digit(name[1]) THEN "name cannot start with a digit"
    ELSE IF contains(name, "/") \/ contains(name, "\\") \/ contains_dotdot(name)
    THEN "name cannot contain path separators or relative paths"
    ELSE IF ~\A i \in 1..Len(name) :
                is_ascii_alphanumeric(name[i]) \/ name[i] = "_" \/ name[i] = "-"
    THEN "name can only contain alphanumeric characters, hyphens, and underscores"
    ELSE "Ok"

\* validate_project_name: "Ok", or the message of the InvalidProjectName
\* error of the first check that fails
validate_project_name(name) ==
    IF Len(name) = 0 THEN "name cannot be empty"
    ELSE IF is_ascii_digit(name[1]) THEN "name cannot start with a digit"
    ELSE IF contains(name, "/") \/ contains(name, "\\") \/ contains_dotdot(name)
    THEN "name cannot contain path separators or relative paths"
    ELSE IF ~\A i \in 1..Len(name) :
                is_ascii_alphanumeric(name[i]) \/ name[i] = "_" \/ name[i] = "-"
    THEN "name can only contain alphanumeric characters, hyphens, and underscores"
    ELSE IF name \in keywords THEN "name cannot be a Rust keyword"
    ELSE "Ok"

\* project_name.replace('-', "_")
binary_name(project_name) ==
    [i \in 1..Len(project_name) |->
        IF project_name[i] = "-" THEN "_" ELSE project_name[i]]

-----------------------------------------------------------------------------
(* The tree under the current directory *)

\* A path {proj}/{dir}/{name}/{rel}: proj is the project directory init
\* creates (<<>> is the current directory itself), dir is "programs" or
\* "program" (or "" for none), name a program under it, and rel the rest,
\* where {} in rel stands for arg ("target/deploy/{}-keypair.json").
P(proj, dir, name, rel, arg) ==
    [proj |-> proj, dir |-> dir, name |-> name, rel |-> rel, arg |-> arg]

\* what a file holds: the template it was rendered from and the values
\* substituted; a keypair file holds the secret key's bytes
Content(template, tmpl, project_name, program_id, secret) ==
    [template |-> template, tmpl |-> tmpl, project_name |-> project_name,
     program_id |-> program_id, secret |-> secret]

NoContent == Content("", "", <<>>, "", "")

Dir(path) == [path |-> path, kind |-> "dir", content |-> NoContent]

File(path, content) == [path |-> path, kind |-> "file", content |-> content]

\* Path::exists
Exists(t, path) == \E e \in t : e.path = path

\* fs::create_dir_all: nothing to do when the path is there
CreateDirAll(t, path) == IF Exists(t, path) THEN t ELSE t \cup {Dir(path)}

\* fs::write, File::create: the file at the path now holds the content
RECURSIVE WriteFiles(_, _)
WriteFiles(t, fls) ==
    IF Len(fls) = 0 THEN t
    ELSE WriteFiles({e \in t : e.path # Head(fls).path} \cup {Head(fls)}, Tail(fls))

\* A directory creation that succeeds whether or not the path is there
create_dir_unchecked(t, path) == TRUE

\* fs::create_dir: Ok exactly when the path was not there; the test and the
\* creation are one system call
create_dir(t, path) == ~Exists(t, path)

\* Keypair::new() of process p, and keypair.pubkey().to_string()
NewKeypair(p) == p

Pubkey(secret) ==
    CASE secret = "p1" -> "pubkey-1"
      [] secret = "p2" -> "pubkey-2"

s_program == <<"-", "p", "r", "o", "g", "r", "a", "m">>

CargoToml == P(<<>>, "", <<>>, "Cargo.toml", <<>>)

ProjectDir(name) == P(name, "", <<>>, "", <<>>)

ProgramsDir(proj, dir) == P(proj, dir, <<>>, "", <<>>)

DeployDir(proj) == P(proj, "", <<>>, "target/deploy", <<>>)

KeypairPath(proj, project_name) ==
    P(proj, "", <<>>, "target/deploy/{}-keypair.json", binary_name(project_name))

\* the files of a single program: create_counter_project,
\* create_hello_world_project (init.rs); tmpl names the template rendered
ProjectFiles(template) ==
    IF template = "counter"
    THEN <<"Cargo.toml", "src/lib.rs", "build.rs", "tests/integration.rs", ".gitignore">>
    ELSE <<"Cargo.toml", "src/lib.rs", "tests/integration.rs", ".gitignore">>

\* Program files that include build.rs for every template
ProgramFilesAlwaysBuildRs(template) == <<"Cargo.toml", "src/lib.rs", "build.rs">>

\* the files of a workspace program: create_workspace_counter,
\* create_workspace_hello_world (init.rs, add.rs)
ProgramFiles(template) ==
    IF template = "counter"
    THEN <<"Cargo.toml", "src/lib.rs", "build.rs">>
    ELSE <<"Cargo.toml", "src/lib.rs">>

\* templates::render(template, project_name, program_id, ..): the files that
\* are rendered with the program id; .gitignore is copied, and the
\* Cargo.toml of a workspace program is formatted without it
Rendered(cmd, template, rel, project_name, program_id) ==
    IF rel = ".gitignore" \/ (cmd # "init" /\ rel = "Cargo.toml")
    THEN Content(template, rel, project_name, "", "")
    ELSE Content(template, rel, project_name, program_id, "")

-----------------------------------------------------------------------------
(* commands/init.rs run, run_workspace; commands/add.rs run_program *)

Cmds == {"init", "init_ws", "add"}

\* --template: the two templates and a name that is neither
Templates == {"counter", "hello-world", "nonexistent"}

n_a_b == <<"a", "-", "b">>
n_a__b == <<"a", "_", "b">>

\* the names two concurrent invocations are given
NamePool == {n_a_b, n_a__b}

\* return Err(kind)
Fail(p, kind) == procs' = [procs EXCEPT ![p].pc = "done", ![p].result = kind]

Goto(p, pc2) == procs' = [procs EXCEPT ![p].pc = pc2]

\* the directory the command works in: the new project, or for add program
\* the current directory
Home(p) == IF procs[p].cmd = "add" THEN <<>> ELSE procs[p].name

\* the program a keypair is generated for: run_workspace names its first
\* program "{name}-program"
ProgramName(p) ==
    IF procs[p].cmd = "init_ws" THEN procs[p].name \o s_program ELSE procs[p].name

\* the directory the program's files are written to
ProgramPath(p, rel) ==
    CASE procs[p].cmd = "init" -> P(procs[p].name, "", <<>>, rel, <<>>)
      [] procs[p].cmd = "init_ws" -> P(procs[p].name, "programs", ProgramName(p), rel, <<>>)
      [] procs[p].cmd = "add" -> P(<<>>, procs[p].base, procs[p].name, rel, <<>>)

\* a process is started with its arguments
Start(p, pool) ==
    /\ procs[p].pc = "idle"
    /\ \E cmd \in Cmds, name \in pool, template \in Templates :
        procs' = [procs EXCEPT ![p] =
                    [IdleProc EXCEPT !.pc = "validate", !.cmd = cmd, !.name = name,
                                     !.template = template, !.result = "running",
                                     !.after = {q \in Procs : procs[q].pc = "done"}]]
    /\ UNCHANGED <<tree, unix, test, genVars, funVars, auxVars>>

\* utils::validate_project_name(name)?  (init.rs:20, init.rs:171, add.rs:16)
ValidateName(p) ==
    /\ procs[p].pc = "validate"
    /\ IF validate_project_name(procs[p].name) = "Ok"
       THEN Goto(p, IF procs[p].cmd = "add" THEN "workspace" ELSE "exists")
       ELSE Fail(p, "InvalidProjectName")
    /\ UNCHANGED <<tree, unix, test, genVars, funVars, auxVars>>

\* An init that goes on whether or not the path exists
InitExistsUnchecked(p) ==
    /\ procs[p].pc = "exists"
    /\ Goto(p, "create")
    /\ UNCHANGED <<tree, unix, test, genVars, funVars, auxVars>>

\* init.rs:22-25, 173-176: if project_path.exists() { return Err(DirectoryExists) }
InitExists(p) ==
    /\ procs[p].pc = "exists"
    /\ IF Exists(tree, ProjectDir(procs[p].name))
       THEN Fail(p, "DirectoryExists")
       ELSE Goto(p, "create")
    /\ UNCHANGED <<tree, unix, test, genVars, funVars, auxVars>>

\* the paths among ps that a step creates or rewrites
Touched(p, ps) == procs[p].wrote \cup ps

\* init.rs:29-33: create_dir_all(&project_path)
InitCreate(p) ==
    /\ procs[p].pc = "create"
    /\ procs[p].cmd = "init"
    /\ LET dir == ProjectDir(procs[p].name)
       IN  /\ tree' = CreateDirAll(tree, dir)
           /\ procs' = [procs EXCEPT ![p].pc = "keypair",
                            ![p].wrote = Touched(p, {dir} \ {e.path : e \in tree})]
    /\ UNCHANGED <<unix, test, genVars, funVars, auxVars>>

\* init.rs:181-212, 232-235: the workspace directories, Cargo.toml and
\* .gitignore, and the directory of the first program
WorkspaceCreate(p) ==
    /\ procs[p].pc = "create"
    /\ procs[p].cmd = "init_ws"
    /\ LET name == procs[p].name
           dirs == <<ProjectDir(name), ProgramsDir(name, "programs"),
                     P(name, "", <<>>, "tests", <<>>), ProgramPath(p, "")>>
           fls == <<File(P(name, "", <<>>, "Cargo.toml", <<>>),
                         Content("workspace", "Cargo.toml", name, "", "")),
                    File(P(name, "", <<>>, ".gitignore", <<>>),
                         Content("workspace", ".gitignore", <<>>, "", ""))>>
           made == CreateDirAll(CreateDirAll(CreateDirAll(tree, dirs[1]), dirs[2]), dirs[3])
       IN  /\ tree' = CreateDirAll(WriteFiles(made, fls), dirs[4])
           /\ procs' = [procs EXCEPT ![p].pc = "keypair",
                            ![p].wrote = Touched(p,
                                ({dirs[i] : i \in 1..4} \ {e.path : e \in tree})
                                \cup {fls[i].path : i \in 1..2})]
    /\ UNCHANGED <<unix, test, genVars, funVars, auxVars>>

\* An add program that does not look at Cargo.toml
AddWorkspaceUnchecked(p) ==
    /\ procs[p].pc = "workspace"
    /\ Goto(p, "select")
    /\ UNCHANGED <<tree, unix, test, genVars, funVars, auxVars>>

\* add.rs:19-25, 79-82: is_in_workspace()?: Cargo.toml is read and parsed,
\* and has a [workspace] table or not
AddWorkspace(p) ==
    /\ procs[p].pc = "workspace"
    /\ IF ~Exists(tree, CargoToml) THEN Fail(p, "Io")
       ELSE IF \E e \in tree : e.path = CargoToml /\ e.content.template = "workspace"
       THEN Goto(p, "select")
       ELSE Fail(p, "not in a workspace")
    /\ UNCHANGED <<tree, unix, test, genVars, funVars, auxVars>>

\* A selection that prefers program/ to programs/
AddSelectSingularFirst(p) ==
    /\ procs[p].pc = "select"
    /\ LET dir_name ==
            IF Exists(tree, ProgramsDir(<<>>, "program")) THEN "program"
            ELSE IF Exists(tree, ProgramsDir(<<>>, "programs")) THEN "programs"
            ELSE ""
       IN  IF dir_name = "" THEN Fail(p, "programs/ or program/ directory not found")
           ELSE procs' = [procs EXCEPT ![p].pc = "create_dir", ![p].base = dir_name]
    /\ UNCHANGED <<tree, unix, test, genVars, funVars, auxVars>>

\* add.rs:30-61: programs/ if it exists, else program/ if it exists, else
\* an error; then the directory must resolve inside the workspace
AddSelect(p) ==
    /\ procs[p].pc = "select"
    /\ LET dir_name ==
            IF Exists(tree, ProgramsDir(<<>>, "programs")) THEN "programs"
            ELSE IF Exists(tree, ProgramsDir(<<>>, "program")) THEN "program"
            ELSE ""
       IN  IF dir_name = "" THEN Fail(p, "programs/ or program/ directory not found")
           ELSE IF \E e \in tree : /\ e.path = ProgramsDir(<<>>, dir_name)
                                   /\ e.kind = "symlink_outside"
           THEN Fail(p, "directory is outside the workspace")
           ELSE procs' = [procs EXCEPT ![p].pc = "create_dir", ![p].base = dir_name]
    /\ UNCHANGED <<tree, unix, test, genVars, funVars, auxVars>>

\* add.rs:92-109: create_dir(&program_path); AlreadyExists => DirectoryExists
AddCreateDir(p) ==
    /\ procs[p].pc = "create_dir"
    /\ LET program_path == ProgramPath(p, "")
       IN  IF create_dir(tree, program_path)
           THEN /\ tree' = (tree \ {e \in tree : e.path = program_path})
                               \cup {Dir(program_path)}
                /\ procs' = [procs EXCEPT ![p].pc = "keypair",
                                ![p].wrote = Touched(p, {program_path})]
           ELSE /\ Fail(p, "DirectoryExists")
                /\ UNCHANGED tree
    /\ UNCHANGED <<unix, test, genVars, funVars, auxVars>>

\* keypair.rs generate_program_keypair: create_dir_all(target/deploy), then
\* the keypair file; on unix it is opened with create_new, elsewhere it is
\* written with fs::write
Keypair(p) ==
    /\ procs[p].pc = "keypair"
    /\ LET deploy == DeployDir(Home(p))
           path == KeypairPath(Home(p), ProgramName(p))
           made == CreateDirAll(tree, deploy)
           new == {deploy} \ {e.path : e \in tree}
       IN  IF unix /\ Exists(tree, path)
           THEN /\ tree' = made
                /\ procs' = [procs EXCEPT ![p].pc = "done",
                                ![p].result = "keypair file already exists",
                                ![p].wrote = Touched(p, new)]
           ELSE /\ tree' = WriteFiles(made,
                              <<File(path, Content("", "keypair.json", <<>>, "", NewKeypair(p)))>>)
                /\ procs' = [procs EXCEPT ![p].pc = "template",
                                ![p].program_id = Pubkey(NewKeypair(p)),
                                ![p].wrote = Touched(p, new \cup {path})]
    /\ UNCHANGED <<unix, test, genVars, funVars, auxVars>>

\* the match on template of run (init.rs:42-55) and create_workspace_program
\* (init.rs:240-253, add.rs:115-128), and the Ok(()) after it
Template(p) ==
    /\ procs[p].pc = "template"
    /\ IF procs[p].template \notin {"counter", "hello-world"}
       THEN Fail(p, "template not found") /\ UNCHANGED tree
       ELSE LET rels == IF procs[p].cmd = "init"
                        THEN ProjectFiles(procs[p].template)
                        ELSE ProgramFiles(procs[p].template)
                fls == [i \in 1..Len(rels) |->
                          File(ProgramPath(p, rels[i]),
                               Rendered(procs[p].cmd, procs[p].template, rels[i],
                                        ProgramName(p), procs[p].program_id))]
            IN  /\ tree' = WriteFiles(tree, fls)
                /\ procs' = [procs EXCEPT ![p].pc = "done", ![p].result = "Ok",
                                ![p].wrote = Touched(p, {fls[i].path : i \in 1..Len(fls)})]
    /\ UNCHANGED <<unix, test, genVars, funVars, auxVars>>

\* what the current directory may hold before the commands run
t_package == {File(CargoToml, Content("package", "Cargo.toml", <<"x">>, "", ""))}
t_workspace == {File(CargoToml, Content("workspace", "Cargo.toml", <<"w">>, "", ""))}
t_plural == t_workspace \cup {Dir(ProgramsDir(<<>>, "programs"))}
t_singular == t_workspace \cup {Dir(ProgramsDir(<<>>, "program"))}
t_both == t_plural \cup t_singular
t_symlink ==
    t_workspace \cup {[path |-> ProgramsDir(<<>>, "programs"),
                       kind |-> "symlink_outside", content |-> NoContent]}
t_taken ==
    t_plural \cup {Dir(P(<<>>, "programs", n_a_b, "", <<>>)), Dir(ProjectDir(n_a_b))}

InitTrees == {{}, t_package, t_workspace, t_plural, t_singular, t_both, t_symlink, t_taken}

InitScaffold ==
    /\ GenIdle
    /\ FunIdle
    /\ AuxIdle
    /\ tree \in InitTrees
    /\ procs = [p \in Procs |-> IdleProc]
    /\ unix \in BOOLEAN
    /\ test = TestIdle

NextScaffold ==
    \/ \E p \in Procs : Start(p, NamePool)
    \/ \E p \in Procs : ValidateName(p)
    \/ \E p \in Procs : InitExists(p)
    \/ \E p \in Procs : InitCreate(p)
    \/ \E p \in Procs : WorkspaceCreate(p)
    \/ \E p \in Procs : AddWorkspace(p)
    \/ \E p \in Procs : AddSelect(p)
    \/ \E p \in Procs : AddCreateDir(p)
    \/ \E p \in Procs : Keypair(p)
    \/ \E p \in Procs : Template(p)

SpecScaffold == InitScaffold /\ [][NextScaffold]_vars

TypeScaffold ==
    \A p \in Procs : procs[p].pc \in {"idle", "validate", "exists", "create", "workspace",
                                      "select", "create_dir", "keypair", "template", "done"}

-----------------------------------------------------------------------------
(* One invocation with a drawn project name *)

MaxNameLen == 3

NameAlphabet == {"a", "s", "1", "_", "-", "/", ".", "\\"}

\* names over the alphabet, every keyword, and some longer names
NameInputs ==
    SeqsUpTo(NameAlphabet, MaxNameLen) \cup keywords \cup NamePool
        \cup {<<"a", "é">>, <<"m", "y", " ", "p">>, <<"m", "y", "@", "p">>,
              <<"p", "r", "o", "j", "1", "2", "3">>, <<"S", "E", "L", "F">>}

InitNames ==
    /\ GenIdle
    /\ FunIdle
    /\ AuxIdle
    /\ tree \in {{}, t_plural}
    /\ procs = [p \in Procs |-> IdleProc]
    /\ unix \in BOOLEAN
    /\ test = TestIdle

NextNames ==
    \/ Start("p1", NameInputs)
    \/ \E p \in Procs : ValidateName(p)
    \/ \E p \in Procs : InitExists(p)
    \/ \E p \in Procs : InitCreate(p)
    \/ \E p \in Procs : WorkspaceCreate(p)
    \/ \E p \in Procs : AddWorkspace(p)
    \/ \E p \in Procs : AddSelect(p)
    \/ \E p \in Procs : AddCreateDir(p)
    \/ \E p \in Procs : Keypair(p)
    \/ \E p \in Procs : Template(p)

SpecNames == InitNames /\ [][NextNames]_vars

\* the names the claim calls valid
ClaimedValidName(name) ==
    /\ name # <<>>
    /\ Head(name) \notin {Digits[i] : i \in 1..Len(Digits)}
    /\ \A i \in 1..Len(name) : name[i] \notin {"/", "\\"}
    /\ \A i \in 1..(Len(name) - 1) : <<name[i], name[i + 1]>> # <<".", ".">>
    /\ \A i \in 1..Len(name) :
        \/ name[i] \in {LowerChars[k] : k \in 1..Len(LowerChars)}
        \/ name[i] \in {UpperChars[k] : k \in 1..Len(UpperChars)}
        \/ name[i] \in {Digits[k] : k \in 1..Len(Digits)}
        \/ name[i] \in {"_", "-"}
    /\ name \notin keywords

\* C14: validate_project_name returns Ok exactly for the names that are
\* non-empty, do not start with an ASCII digit, contain no '/', '\' or "..",
\* consist of ASCII alphanumerics, '_' and '-' and are not a Rust keyword;
\* for any other name init, init --workspace and add program fail with
\* InvalidProjectName before creating any directory or file.
C14_ProjectNameValidation ==
    \A p \in Procs :
        procs[p].pc # "idle"
        => LET name == procs[p].name
           IN  /\ (validate_project_name(name) = "Ok") <=> ClaimedValidName(name)
               /\ ClaimedValidName(name) => procs[p].result # "InvalidProjectName"
               /\ ~ClaimedValidName(name)
                  => /\ procs[p].pc \in {"validate", "done"}
                     /\ procs[p].wrote = {}
                     /\ procs[p].pc = "done" => procs[p].result = "InvalidProjectName"

\* add program as (a keyword) has failed in a workspace, creating nothing
C14_Witness ==
    /\ procs["p1"].pc = "done"
    /\ procs["p1"].cmd = "add"
    /\ procs["p1"].name = <<"a", "s">>
    /\ procs["p1"].result = "InvalidProjectName"
    /\ tree = t_plural

-----------------------------------------------------------------------------
(* Claims about init and add program *)

InitCmds == {"init", "init_ws"}

\* an init that finds its path taken fails there and then, changing nothing
InitOnExistingPath(p) ==
    (/\ procs[p].pc = "exists"
     /\ Exists(tree, ProjectDir(procs[p].name))
     /\ procs'[p] # procs[p])
    => /\ procs'[p].pc = "done"
       /\ procs'[p].result = "DirectoryExists"
       /\ procs'[p].wrote = {}
       /\ procs'[p].program_id = ""
       /\ tree' = tree

\* an init of a name that an earlier init has created fails
SecondInitFails(p) ==
    (/\ procs[p].cmd \in InitCmds
     /\ procs[p].pc \notin {"idle", "validate"}
     /\ \E q \in procs[p].after :
            /\ procs[q].cmd \in InitCmds
            /\ procs[q].name = procs[p].name
            /\ procs[q].result = "Ok")
    => /\ procs[p].pc \in {"exists", "done"}
       /\ procs[p].wrote = {}
       /\ procs[p].program_id = ""
       /\ procs[p].pc = "done" => procs[p].result = "DirectoryExists"

\* C13: init (run and run_workspace) for a name whose path already exists
\* fails with DirectoryExists and changes nothing: no entry of the tree is
\* touched and no keypair is generated; in particular a second init with the
\* same name after a successful first one always fails.
C13_InitExistingPathFails ==
    /\ [](\A p \in Procs : SecondInitFails(p))
    /\ [][\A p \in Procs : InitOnExistingPath(p)]_vars

\* a workspace init of a-b has failed after a successful init of a-b
C13_Witness ==
    /\ procs["p1"].cmd = "init"
    /\ procs["p1"].result = "Ok"
    /\ procs["p1"].name = n_a_b
    /\ procs["p2"].cmd = "init_ws"
    /\ procs["p2"].name = n_a_b
    /\ procs["p2"].after = {"p1"}
    /\ procs["p2"].result = "DirectoryExists"
    /\ Exists(tree, KeypairPath(n_a_b, n_a_b))
    /\ ~Exists(tree, KeypairPath(n_a_b, n_a_b \o s_program))

\* the paths of the program directory programs/<name> (or program/<name>)
InProgram(path, name) == path.proj = <<>> /\ path.dir # "" /\ path.name = name

\* C15: add program creates the program directory with an atomic create: a
\* second add program with the same name after a successful first fails with
\* DirectoryExists, and in every interleaving of two concurrent add program
\* runs with the same name at most one creates programs/<name> and writes
\* its files, while the other fails with DirectoryExists without touching
\* them.
C15_AddProgramAtomicCreate ==
    \A p, q \in Procs :
        (/\ p # q
         /\ procs[p].cmd = "add"
         /\ procs[q].cmd = "add"
         /\ procs[p].name = procs[q].name
         /\ \E path \in procs[p].wrote : InProgram(path, procs[p].name))
        => /\ \A path \in procs[q].wrote : ~InProgram(path, procs[q].name)
           /\ procs[q].pc \notin {"keypair", "template"}
           /\ procs[q].pc = "done"
              => /\ procs[q].result = "DirectoryExists"
                 /\ procs[q].wrote = {}

\* two add program a-b ran at the same time: both had selected programs/
\* before either created the directory; one wrote the program, the other
\* failed
C15_Witness ==
    /\ procs["p1"].cmd = "add"
    /\ procs["p2"].cmd = "add"
    /\ procs["p1"].name = n_a__b
    /\ procs["p2"].name = n_a__b
    /\ procs["p1"].after = {}
    /\ procs["p2"].after = {}
    /\ procs["p1"].result = "Ok"
    /\ procs["p2"].result = "DirectoryExists"
    /\ procs["p2"].base = "programs"
    /\ Exists(tree, P(<<>>, "programs", n_a__b, "src/lib.rs", <<>>))

\* the current directory has a Cargo.toml without a [workspace] table
NoWorkspaceTable ==
    \E e \in tree : e.path = CargoToml /\ e.content.template # "workspace"

\* C16: add program (with a name that passes validation) run in a directory
\* whose Cargo.toml has no [workspace] table fails with "not in a workspace"
\* and creates no directory, keypair or file.
C16_AddOutsideWorkspace ==
    \A p \in Procs :
        (/\ procs[p].cmd = "add"
         /\ NoWorkspaceTable
         /\ validate_project_name(procs[p].name) = "Ok"
         /\ procs[p].pc \notin {"idle", "validate", "workspace"})
        => /\ procs[p].pc = "done"
           /\ procs[p].result = "not in a workspace"
           /\ procs[p].wrote = {}
           /\ procs[p].program_id = ""
           /\ \A e \in tree : e.path.proj = <<>> => e \in t_package

\* add program a-b has failed in the directory of a single program
C16_Witness ==
    /\ procs["p1"].cmd = "add"
    /\ procs["p1"].name = n_a_b
    /\ procs["p1"].result = "not in a workspace"
    /\ t_package \subseteq tree

\* the directory the claim has add program use
ClaimedBase ==
    IF Exists(tree, ProgramsDir(<<>>, "programs")) THEN "programs"
    ELSE IF Exists(tree, ProgramsDir(<<>>, "program")) THEN "program"
    ELSE ""

\* C17: add program places the new program under programs/<name> whenever a
\* programs/ directory exists, under program/<name> when only program/
\* exists, and fails without creating anything when neither exists; it
\* never creates anything under the directory that was not selected.
C17_ProgramsDirectorySelection ==
    /\ \A e \in tree :
          (e.path.proj = <<>> /\ e.path.name # <<>>) => e.path.dir = ClaimedBase
    /\ \A p \in Procs :
          procs[p].cmd = "add"
          => /\ procs[p].base \in {"", ClaimedBase}
             /\ \A path \in procs[p].wrote :
                    path.proj = <<>> /\ path.dir \in {"", procs[p].base}
             /\ procs[p].wrote # {} => procs[p].base # ""
             /\ (ClaimedBase = "" /\ procs[p].pc \notin {"idle", "validate", "workspace", "select"})
                => /\ procs[p].pc = "done"
                   /\ procs[p].wrote = {}
                   /\ procs[p].result \in {"InvalidProjectName", "Io", "not in a workspace",
                                            "programs/ or program/ directory not found"}
             /\ procs[p].result = "Ok"
                => /\ ClaimedBase # ""
                   /\ Exists(tree, P(<<>>, ClaimedBase, procs[p].name, "Cargo.toml", <<>>))
                   /\ Exists(tree, P(<<>>, ClaimedBase, procs[p].name, "src/lib.rs", <<>>))

\* with both programs/ and program/ present, add program a-b has written
\* programs/a-b and nothing under program/
C17_Witness ==
    /\ t_both \subseteq tree
    /\ procs["p1"].cmd = "add"
    /\ procs["p1"].name = n_a_b
    /\ procs["p1"].result = "Ok"
    /\ Exists(tree, P(<<>>, "programs", n_a_b, "src/lib.rs", <<>>))
    /\ \A e \in tree : e.path.dir = "program" => e.path.name = <<>>

\* no other invocation has written files of the same program
AloneInProgram(p) ==
    \A q \in Procs \ {p} :
        \A path \in procs[q].wrote : path.rel = "" \/ path # ProgramPath(p, path.rel)

ClaimedKeypair(name) == {e \in tree : e.path = KeypairPath(name, name) /\ e.kind = "file"}

\* the sources of the single program name (src/lib.rs, build.rs, ..) that
\* were rendered with a program id
SourcesOf(name) ==
    {e \in tree : /\ e.path.proj = name
                  /\ e.path.dir = ""
                  /\ e.kind = "file"
                  /\ e.content.program_id # ""}

\* C19: after every successful init of project <name> (run), the file
\* <name>/target/deploy/<name with '-' replaced by '_'>-keypair.json exists
\* and holds the bytes of a keypair, and the program id substituted into the
\* generated sources is the public key of exactly that keypair.
C19_KeypairMatchesProgramId ==
    \A p \in Procs :
        (procs[p].cmd = "init" /\ procs[p].result = "Ok")
        => /\ ClaimedKeypair(procs[p].name) # {}
           /\ \A k \in ClaimedKeypair(procs[p].name) :
                /\ k.content.tmpl = "keypair.json"
                /\ k.content.secret # ""
                /\ procs[p].program_id = Pubkey(k.content.secret)
                /\ \A e \in SourcesOf(procs[p].name) :
                        e.content.program_id = Pubkey(k.content.secret)
           /\ SourcesOf(procs[p].name) # {}

-----------------------------------------------------------------------------
(* commands/test.rs run *)

SoPath(binary) == P(<<>>, "", <<>>, "target/deploy/{}.so", binary)

\* entry.path().extension() of an entry of target/deploy
extension(path) ==
    CASE path.rel = "target/deploy/{}.so" -> Some("so")
      [] path.rel = "target/deploy/{}-keypair.json" -> Some("json")
      [] OTHER -> None

\* the entries read_dir(target/deploy) yields
DeployEntries(t) ==
    {e \in t : e.path.proj = <<>> /\ e.path.rel \in {"target/deploy/{}.so",
                                                    "target/deploy/{}-keypair.json"}}

\* A test for binaries that any entry of target/deploy passes
has_any_entry(t) == DeployEntries(t) # {}

\* .any(|entry| entry.path().extension().map_or(false, |ext| ext == "so"))
has_programs(t) ==
    \E e \in DeployEntries(t) : IsSome(extension(e.path)) /\ Unwrap(extension(e.path)) = "so"

\* utils::get_package_name: package.name of Cargo.toml, if there is one
get_package_name(t) ==
    LET found == {e \in t : e.path = CargoToml /\ e.content.template = "package"
                                               /\ e.content.project_name # <<>>}
    IN  IF found = {} THEN None ELSE Some((CHOOSE e \in found : TRUE).content.project_name)

\* A project check that accepts every directory
check_rust_project_any_dir(t) == TRUE

\* utils::check_rust_project: Path::new(CARGO_TOML).exists()
check_rust_project(t) == Exists(t, CargoToml)

TestEnd(kind) == test' = [test EXCEPT !.pc = "done", !.result = kind]

TestStart ==
    /\ test.pc = "idle"
    /\ test' = [test EXCEPT !.pc = "check", !.result = "running"]
    /\ UNCHANGED <<tree, procs, unix, genVars, funVars, auxVars>>

\* utils::check_rust_project()?
TestCheckProject ==
    /\ test.pc = "check"
    /\ IF check_rust_project(tree)
       THEN test' = [test EXCEPT !.pc = "is_workspace"]
       ELSE TestEnd("NotInProject")
    /\ UNCHANGED <<tree, procs, unix, genVars, funVars, auxVars>>

\* let is_workspace = utils::is_workspace()?  The function returns a
\* Result<bool>; what it looks at is not part of this model, so it may
\* return Ok(true), Ok(false) or an error for any tree.
TestIsWorkspace ==
    /\ test.pc = "is_workspace"
    /\ \E r \in {"true", "false", "error"} :
        IF r = "error" THEN TestEnd("Io")
        ELSE test' = [test EXCEPT !.pc = "binaries", !.is_workspace = r]
    /\ UNCHANGED <<tree, procs, unix, genVars, funVars, auxVars>>

\* test.rs:19-29: a single program needs target/deploy/{binary_name}.so
TestSingleBinary ==
    /\ test.pc = "binaries"
    /\ test.is_workspace = "false"
    /\ LET package_name == get_package_name(tree)
       IN  IF ~IsSome(package_name) THEN TestEnd("InvalidCargoToml")
           ELSE IF ~Exists(tree, SoPath(binary_name(Unwrap(package_name))))
           THEN TestEnd("ProgramNotBuilt")
           ELSE test' = [test EXCEPT !.pc = "cargo"]
    /\ UNCHANGED <<tree, procs, unix, genVars, funVars, auxVars>>

\* test.rs:30-54: a workspace needs target/deploy and a .so entry in it
TestWorkspaceBinaries ==
    /\ test.pc = "binaries"
    /\ test.is_workspace = "true"
    /\ IF ~Exists(tree, DeployDir(<<>>))
       THEN TestEnd("target/deploy/ directory not found")
       ELSE IF ~has_programs(tree)
       THEN TestEnd("no program binaries found in target/deploy/")
       ELSE test' = [test EXCEPT !.pc = "cargo"]
    /\ UNCHANGED <<tree, procs, unix, genVars, funVars, auxVars>>

\* Command::new("cargo").arg("test")...status(): the process is started, or
\* cannot be executed
CargoTestStart ==
    /\ test.pc = "cargo"
    /\ \/ test' = [test EXCEPT !.pc = "wait", !.cargo = "running"]
       \/ TestEnd("failed to execute 'cargo test'")
    /\ UNCHANGED <<tree, procs, unix, genVars, funVars, auxVars>>

\* the process exits; if !status.success() { "tests failed" }
CargoTestExit ==
    /\ test.pc = "wait"
    /\ \E success \in BOOLEAN :
        test' = [test EXCEPT !.pc = "done",
                             !.cargo = IF success THEN "passed" ELSE "failed",
                             !.result = IF success THEN "Ok" ELSE "tests failed"]
    /\ UNCHANGED <<tree, procs, unix, genVars, funVars, auxVars>>

\* what the current directory may hold when the test command is run
TestManifests ==
    {{}, t_workspace, {File(CargoToml, Content("package", "Cargo.toml", n_a_b, "", ""))},
     {File(CargoToml, Content("package", "Cargo.toml", <<>>, "", ""))}}

TestDeployEntries ==
    {Dir(SoPath(n_a__b)), File(SoPath(n_a_b), NoContent),
     File(KeypairPath(<<>>, n_a_b), Content("", "keypair.json", <<>>, "", "p1"))}

TestTrees ==
    {m \cup d : m \in TestManifests,
                d \in {{}} \cup {{Dir(DeployDir(<<>>))} \cup s : s \in SUBSET TestDeployEntries}}

InitTest ==
    /\ GenIdle
    /\ FunIdle
    /\ AuxIdle
    /\ tree \in TestTrees
    /\ procs = [p \in Procs |-> IdleProc]
    /\ unix = TRUE
    /\ test = TestIdle

NextTest ==
    \/ TestStart
    \/ TestCheckProject
    \/ TestIsWorkspace
    \/ TestSingleBinary
    \/ TestWorkspaceBinaries
    \/ CargoTestStart
    \/ CargoTestExit

SpecTest == InitTest /\ [][NextTest]_vars

\* the binaries the command requires in the branch it took
BinariesPresent ==
    IF test.is_workspace = "true"
    THEN \E e \in tree : e.path.proj = <<>> /\ e.path.rel = "target/deploy/{}.so"
    ELSE /\ IsSome(get_package_name(tree))
         /\ Exists(tree, SoPath(binary_name(Unwrap(get_package_name(tree)))))

ErrorMessage(kind) ==
    CASE kind = "NotInProject" -> "Cargo.toml not found in current directory"
      [] OTHER -> kind

JobEnd(kind) == job' = [job EXCEPT !.pc = "done", !.result = kind]

\* the process the command runs last
CargoCommand(cmd) == IF cmd = "build" THEN "cargo build-sbf" ELSE "cargo clean"

JobStart ==
    /\ job.pc = "idle"
    /\ \E c \in {"build", "clean"} :
        job' = [job EXCEPT !.pc = "check", !.cmd = c, !.result = "running"]
    /\ UNCHANGED jobFrame

\* utils::check_rust_project()? (build.rs:11, clean.rs:13)
JobCheckProject ==
    /\ job.pc = "check"
    /\ IF check_rust_project(tree)
       THEN job' = [job EXCEPT !.pc = IF job.cmd = "build" THEN "check_installed"
                                                          ELSE "cargo"]
       ELSE JobEnd("NotInProject")
    /\ UNCHANGED jobFrame

\* checks::solana::check_installed()?: runs cargo build-sbf --version; any
\* outcome but a successful exit is SolanaNotInstalled
check_installed ==
    /\ job.pc = "check_installed"
    /\ \E ok \in BOOLEAN :
        job' = [job EXCEPT !.started = @ \cup {"cargo build-sbf --version"},
                           !.pc = IF ok THEN "dependency" ELSE "done",
                           !.result = IF ok THEN @ ELSE "SolanaNotInstalled"]
    /\ UNCHANGED jobFrame

\* utils::has_typhoon_dependency()?: Cargo.toml is read and parsed; a
\* missing dependency is only a warning
has_typhoon_dependency ==
    /\ job.pc = "dependency"
    /\ IF \E e \in tree : e.path = CargoToml /\ e.kind = "file"
       THEN \/ job' = [job EXCEPT !.pc = "cargo"]
            \/ JobEnd("TomlParse")
       ELSE JobEnd("Io")
    /\ UNCHANGED jobFrame

\* Command::new("cargo").arg(..).status(): the process is started, or
\* cannot be executed (solana.rs:52-55, clean.rs:17-19)
JobCargoStart ==
    /\ job.pc = "cargo"
    /\ \/ job' = [job EXCEPT !.pc = "wait", !.started = @ \cup {CargoCommand(job.cmd)}]
       \/ JobEnd("failed to execute")
    /\ UNCHANGED jobFrame

\* the process exits (solana.rs:57-61, clean.rs:21-25)
JobCargoExit ==
    /\ job.pc = "wait"
    /\ \E success \in BOOLEAN :
        JobEnd(IF success THEN "Ok"
               ELSE IF job.cmd = "build" THEN "BuildFailed" ELSE "clean failed")
    /\ UNCHANGED jobFrame

\* build, clean and test run in the same directory
NextProject ==
    \/ NextTest
    \/ JobStart
    \/ JobCheckProject
    \/ check_installed
    \/ has_typhoon_dependency
    \/ JobCargoStart
    \/ JobCargoExit

SpecProject == InitTest /\ [][NextProject]_vars

\* C21: build, test and clean run in a directory without Cargo.toml fail
\* with 'Cargo.toml not found in current directory' before any toolchain
\* check or external process (cargo build-sbf, cargo test, cargo clean) is
\* started.
C21_NotInProjectBeforeToolchain ==
    ~Exists(tree, CargoToml) =>
        /\ test.pc \in {"idle", "check", "done"}
        /\ test.cargo = "not started"
        /\ test.pc = "done" =>
              ErrorMessage(test.result) = "Cargo.toml not found in current directory"
        /\ job.pc \in {"idle", "check", "done"}
        /\ job.started = {}
        /\ job.pc = "done" =>
              ErrorMessage(job.result) = "Cargo.toml not found in current directory"

\* build and test have both ended in a directory without Cargo.toml
C21_Witness ==
    /\ ~Exists(tree, CargoToml)
    /\ Exists(tree, DeployDir(<<>>))
    /\ job.pc = "done" /\ job.cmd = "build" /\ job.result = "NotInProject"
    /\ test.pc = "done" /\ test.result = "NotInProject"

\* ---------------------------------------------------------------------
\* keys.rs: keys sync
\* ---------------------------------------------------------------------

\* the secret keys Keypair::new() may draw
Secrets == {"p1", "p2"}

\* program_id_regex.replace(&content, format!("program_id!(\"{new_id}\");")):
\* the first match is replaced by the canonical call; text without a
\* match is returned as it is
replace_program_id(content, new_id) ==
    IF content.macro = "none" THEN content ELSE LibText(TRUE, "canonical", new_id)

\* update_program_id: the error it returns, or "Ok" with lib.rs written
update_program_id(content, new_id) ==
    IF ~content.exists THEN "Failed to read"
    ELSE IF replace_program_id(content, new_id) = content
    THEN "No program_id! macro found"
    ELSE "Ok"

\* the orders in which config.programs.iter() (a HashMap) may yield names
Orders(names) ==
    {o \in [1..Cardinality(names) -> names] :
        \A i, j \in 1..Cardinality(names) : o[i] = o[j] => i = j}

SyncEnd(kind) == sync' = [sync EXCEPT !.pc = "done", !.result = kind]

\* keys.rs:90-116: the workspace root, typhoon.toml and programs_to_sync.
\* A repeated run is given the same program_name.
SyncStart ==
    /\ sync.pc = "idle"
    /\ sync.run < 2
    /\ \E arg \in {<<>>} \cup {<<n>> : n \in SyncPrograms} :
        /\ sync.run = 1 => arg = sync.arg
        /\ LET programs_to_sync == IF arg = <<>> THEN wksp.toml.programs
                                   ELSE {n \in wksp.toml.programs : n = arg[1]}
               started == [sync EXCEPT !.run = @ + 1, !.arg = arg, !.result = "running"]
           IN  IF ~wksp.toml.exists
               THEN \E found \in BOOLEAN :
                       sync' = [started EXCEPT !.pc = "done",
                                  !.result = IF found
                                             THEN "No typhoon.toml found in workspace"
                                             ELSE "Not in a Typhoon workspace"]
               ELSE IF programs_to_sync = {}
               THEN sync' = [started EXCEPT !.pc = "done",
                                            !.result = "No programs found to sync"]
               ELSE \E o \in Orders(programs_to_sync) :
                       sync' = [started EXCEPT !.pc = "keypair", !.order = o, !.i = 1,
                                               !.config_ids = wksp.toml.program_ids]
    /\ UNCHANGED <<wksp, syncFrame>>

\* keys.rs:122-157: read the program's keypair.json, or write a new one
SyncKeypair ==
    /\ sync.pc = "keypair"
    /\ LET name == sync.order[sync.i]
       IN  IF wksp.keypair[name] # ""
           THEN /\ sync' = [sync EXCEPT !.pc = "update",
                                        !.program_id = Pubkey(wksp.keypair[name])]
                /\ UNCHANGED wksp
           ELSE \E new_keypair \in Secrets :
                /\ wksp' = [wksp EXCEPT !.keypair[name] = new_keypair]
                /\ sync' = [sync EXCEPT !.pc = "update",
                                        !.program_id = Pubkey(new_keypair)]
    /\ UNCHANGED syncFrame

\* keys.rs:160-165: update_program_id(..)?, then config.program_ids.insert
SyncUpdate ==
    /\ sync.pc = "update"
    /\ LET name == sync.order[sync.i]
           updated == update_program_id(wksp.lib[name], sync.program_id)
       IN  IF updated # "Ok"
           THEN SyncEnd(updated) /\ UNCHANGED wksp
           ELSE /\ wksp' = [wksp EXCEPT !.lib[name] =
                              replace_program_id(wksp.lib[name], sync.program_id)]
                /\ sync' = [sync EXCEPT
                              !.rewrote = @ \cup {name},
                              !.config_ids[name] = sync.program_id,
                              !.i = @ + 1,
                              !.pc = IF sync.i = Len(sync.order) THEN "write" ELSE "keypair"]
    /\ UNCHANGED syncFrame

\* keys.rs:176-189: the configuration is written back to typhoon.toml
SyncWrite ==
    /\ sync.pc = "write"
    /\ wksp' = [wksp EXCEPT !.toml.program_ids = sync.config_ids]
    /\ SyncEnd("Ok")
    /\ UNCHANGED syncFrame

\* the command is run again, with the keypair files as they are
SyncAgain ==
    /\ sync.pc = "done"
    /\ sync.run = 1
    /\ sync' = [SyncIdle EXCEPT !.run = 1, !.arg = sync.arg, !.prev = wksp,
                                !.prev_result = sync.result]
    /\ UNCHANGED <<wksp, syncFrame>>

LibTexts ==
    {NoLib, LibText(TRUE, "none", ""), LibText(TRUE, "canonical", "pubkey-1"),
     LibText(TRUE, "canonical", "pubkey-2"), LibText(TRUE, "loose", "pubkey-1")}

Tomls ==
    {EmptyWs.toml} \cup
    {[exists |-> TRUE, programs |-> ps, program_ids |-> ids] :
        ps \in {{}, {"a"}, {"a", "b"}}, ids \in [SyncPrograms -> {"", "pubkey-1"}]}

SyncWorkspaces ==
    {[keypair |-> k, lib |-> l, toml |-> tm] :
        k \in [SyncPrograms -> {""} \cup Secrets], l \in [SyncPrograms -> LibTexts],
        tm \in Tomls}

InitSync ==
    /\ GenIdle
    /\ FunIdle
    /\ tree = {}
    /\ procs = [p \in Procs |-> IdleProc]
    /\ unix = TRUE
    /\ test = TestIdle
    /\ job = JobIdle
    /\ wksp \in SyncWorkspaces
    /\ sync = SyncIdle
    /\ suite = SuiteIdle

NextSync ==
    \/ SyncStart
    \/ SyncKeypair
    \/ SyncUpdate
    \/ SyncWrite
    \/ SyncAgain

SpecSync == InitSync /\ [][NextSync]_vars

\* C22: keys sync is idempotent: after a successful sync, running sync
\* again with unchanged keypair files succeeds and leaves every program's
\* src/lib.rs and typhoon.toml unchanged.
C22_SyncIdempotent ==
    (sync.run = 2 /\ sync.pc = "done" /\ sync.prev_result = "Ok")
        => (sync.result = "Ok" /\ wksp = sync.prev)

\* C23: after any keys sync run, successful or failed, for every program
\* whose src/lib.rs the run has rewritten, typhoon.toml's program_ids
\* entry holds the ID that lib.rs holds, which is the public key of the
\* program's keypair.json.
C23_ProgramIdRecordsAgree ==
    sync.pc = "done" =>
        \A name \in sync.rewrote :
            /\ wksp.keypair[name] # ""
            /\ wksp.lib[name].id = Pubkey(wksp.keypair[name])
            /\ wksp.toml.program_ids[name] = wksp.lib[name].id

\* C24: a failing init leaves no artifacts: when init (run or
\* run_workspace) fails because the template name is unknown, no project
\* directory and no keypair file have been created, so a following init
\* with the same name and a valid template succeeds.
C24_FailedInitLeavesNoArtifacts ==
    \A p \in Procs :
        (/\ procs[p].cmd \in InitCmds
         /\ procs[p].pc = "done"
         /\ procs[p].result = "template not found")
        => /\ procs[p].wrote = {}
           /\ procs[p].program_id = ""
           /\ \A q \in Procs :
                (/\ p \in procs[q].after
                 /\ procs[q].cmd \in InitCmds
                 /\ procs[q].name = procs[p].name
                 /\ procs[q].template \in {"counter", "hello-world"}
                 /\ procs[q].pc = "done"
                 /\ validate_project_name(procs[q].name) = "Ok")
                => procs[q].result = "Ok"

\* C25: language validation and emitter dispatch agree: every language
\* name that validate_language_name accepts is dispatched by
\* generate_bindings to an emitter, so after validation succeeds the
\* 'Unsupported language' branch is never taken and every requested pair
\* produces a package.
C25_ValidationAgreesWithDispatch ==
    (\A i \in 1..Len(languages) : validate_language_name(languages[i]))
        => /\ warnings = <<>>
           /\ (pc = "done" /\ result = "ok")
                => Len(attempts) = Len(idl_files) * Len(languages)

\* C26: in the generated TypeScript client, every generated type name that
\* index.ts references is both defined in types.ts and listed in index.ts's
\* import from './types': each <PascalName>Args type used as a method
\* parameter is defined once in types.ts and imported.
C26_ReferencedTypesImported ==
    fpc = "applied" =>
        \A i \in 1..Len(fout.client.methods) :
            \A j \in 1..Len(fout.client.methods[i].params) :
                LET type == fout.client.methods[i].params[j].type
                IN  type # <<>> =>
                      /\ Cardinality({k \in 1..Len(fout.types) :
                                         fout.types[k].name = type}) = 1
                      /\ \E k \in 1..Len(fout.client.imports) :
                            fout.client.imports[k] = type

\* generate_program_keypair called where the keypair file exists fails and
\* leaves the file as it is
KeypairKept(p) ==
    LET path == KeypairPath(Home(p), ProgramName(p))
    IN  (/\ procs[p].pc = "keypair"
         /\ procs'[p] # procs[p]
         /\ Exists(tree, path))
        => /\ procs'[p].pc = "done"
           /\ procs'[p].result = "keypair file already exists"
           /\ \A e \in tree : e.path = path => e \in tree'

\* C27: generate_program_keypair never overwrites an existing keypair: if
\* target/deploy/<binary_name>-keypair.json already exists the call fails
\* with 'keypair file already exists' and the file's content is unchanged;
\* a keypair file is only ever created, never rewritten.
C27_KeypairNeverOverwritten ==
    [][/\ \A p \in Procs : KeypairKept(p)
       /\ \A e \in tree : e.content.tmpl = "keypair.json" => e \in tree']_vars

\* an add program run after a successful add program of another name, with
\* a known template, succeeds unless its program directory exists
AddAfterAddSucceeds(p, q) ==
    (/\ procs[q].cmd = "add" /\ procs[q].result = "Ok"
     /\ q \in procs[p].after
     /\ procs[p].cmd = "add" /\ procs[p].pc = "done"
     /\ procs[p].name # procs[q].name
     /\ procs[p].template \in {"counter", "hello-world"})
    => procs[p].result \in {"Ok", "DirectoryExists"}

\* C28: in a valid workspace, add program with a valid name for which no
\* program directory exists yet succeeds and leaves a complete program,
\* after any sequence of earlier successful add program runs with different
\* names (including names that differ from it only in '-' versus '_'); a
\* failed add program leaves no empty program directory behind.
C28_AddProgramSucceedsOrCleansUp ==
    /\ \A p, q \in Procs : AddAfterAddSucceeds(p, q)
    /\ \A p \in Procs :
        (procs[p].cmd = "add" /\ procs[p].pc = "done" /\ procs[p].result # "Ok")
        => \A path \in procs[p].wrote : ~InProgram(path, procs[p].name)

\* ---------------------------------------------------------------------
\* scaffold.rs: add_instruction
\* ---------------------------------------------------------------------

\* The text of lib.rs is a sequence of tokens, each a sequence of strings:
\* the pieces of text the function searches for, and identifiers spelled
\* character by character.
t_handlers == <<"handlers! {">>
t_close == <<"}">>
t_nl == <<"\n">>
t_indent == <<"    ">>
t_comma == <<",">>
t_comment == <<"//">>
t_derive == <<"#[derive(">>
t_code == <<"pub fn ...">>

SpecialTokens ==
    {t_handlers, t_close, t_nl, t_indent, t_comma, t_comment, t_derive, t_code}

MaxHandlers == 2

\* validation.rs:64-69
rust_keywords ==
    {<<"a", "s">>, <<"b", "r", "e", "a", "k">>, <<"c", "o", "n", "s", "t">>,
     <<"c", "o", "n", "t", "i", "n", "u", "e">>, <<"c", "r", "a", "t", "e">>,
     <<"e", "l", "s", "e">>, <<"e", "n", "u", "m">>,
     <<"e", "x", "t", "e", "r", "n">>, <<"f", "a", "l", "s", "e">>,
     <<"f", "n">>, <<"f", "o", "r">>, <<"i", "f">>, <<"i", "m", "p", "l">>,
     <<"i", "n">>, <<"l", "e", "t">>, <<"l", "o", "o", "p">>,
     <<"m", "a", "t", "c", "h">>, <<"m", "o", "d">>, <<"m", "o", "v", "e">>,
     <<"m", "u", "t">>, <<"p", "u", "b">>, <<"r", "e", "f">>,
     <<"r", "e", "t", "u", "r", "n">>, <<"s", "e", "l", "f">>,
     <<"S", "e", "l", "f">>, <<"s", "t", "a", "t", "i", "c">>,
     <<"s", "t", "r", "u", "c", "t">>, <<"s", "u", "p", "e", "r">>,
     <<"t", "r", "a", "i", "t">>, <<"t", "r", "u", "e">>,
     <<"t", "y", "p", "e">>, <<"u", "n", "s", "a", "f", "e">>,
     <<"u", "s", "e">>, <<"w", "h", "e", "r", "e">>,
     <<"w", "h", "i", "l", "e">>, <<"a", "s", "y", "n", "c">>,
     <<"a", "w", "a", "i", "t">>, <<"d", "y", "n">>, <<"t", "r", "y">>,
     <<"u", "n", "i", "o", "n">>, <<"y", "i", "e", "l", "d">>}

\* validation.rs validate_instruction_name: "Ok" or the error
validate_instruction_name(name) ==
    IF Len(name) = 0 THEN "Instruction name cannot be empty"
    ELSE IF ~(IsIn(name[1], LowerChars) \/ IsIn(name[1], UpperChars)) /\ name[1] # "_"
    THEN "Instruction name must start with a letter or underscore"
    ELSE IF ~\A i \in 1..Len(name) : is_ascii_alphanumeric(name[i]) \/ name[i] = "_"
    THEN "Instruction name can only contain letters, numbers, and underscores"
    ELSE IF name \in rust_keywords THEN "is a Rust keyword"
    ELSE "Ok"

\* str::find from a position on: the first index of the token, 0 for None
find_from(text, tok, from) ==
    LET hits == {i \in from..Len(text) : text[i] = tok}
    IN  IF hits = {} THEN 0 ELSE CHOOSE i \in hits : \A j \in hits : i <= j

\* str::rfind in text[..before): the last index of the token, 0 for None
rfind_before(text, tok, before) ==
    LET hits == {i \in 1..(before - 1) : text[i] = tok}
    IN  IF hits = {} THEN 0 ELSE CHOOSE i \in hits : \A j \in hits : i >= j

\* str::lines: the pieces between newlines
RECURSIVE lines(_)
lines(text) ==
    LET nl == find_from(text, t_nl, 1)
    IN  IF text = <<>> THEN <<>>
        ELSE IF nl = 0 THEN <<text>>
        ELSE <<SubSeq(text, 1, nl - 1)>> \o lines(SubSeq(text, nl + 1, Len(text)))

\* str::trim: leading and trailing whitespace removed
RECURSIVE trim(_)
trim(line) ==
    IF line = <<>> THEN line
    ELSE IF Head(line) = t_indent THEN trim(Tail(line))
    ELSE IF line[Len(line)] = t_indent THEN trim(SubSeq(line, 1, Len(line) - 1))
    ELSE line

\* str::trim_end_matches(',')
RECURSIVE trim_end_commas(_)
trim_end_commas(line) ==
    IF line # <<>> /\ line[Len(line)] = t_comma
    THEN trim_end_commas(SubSeq(line, 1, Len(line) - 1))
    ELSE line

IsHandlerLine(trimmed) == trimmed # <<>> /\ Head(trimmed) # t_comment

\* scaffold.rs:185-196: the lines of the block after the first, trimmed,
\* without empty and comment lines and without trailing commas
existing_handlers(handlers_content) ==
    LET ls == lines(handlers_content)
        rest == IF ls = <<>> THEN <<>> ELSE Tail(ls)
        kept == SelectSeq([i \in 1..Len(rest) |-> trim(rest[i])], IsHandlerLine)
    IN  [i \in 1..Len(kept) |-> trim_end_commas(kept[i])]

\* .join("\n")
RECURSIVE join_lines(_)
join_lines(ls) ==
    IF ls = <<>> THEN <<>>
    ELSE IF Len(ls) = 1 THEN ls[1]
    ELSE ls[1] \o <<t_nl>> \o join_lines(Tail(ls))

\* scaffold.rs:203-210: format!("handlers! {{\n{}\n}}", "    {h}," lines)
new_handlers(all_handlers) ==
    <<t_handlers, t_nl>>
    \o join_lines([i \in 1..Len(all_handlers) |->
                      <<t_indent>> \o all_handlers[i] \o <<t_comma>>])
    \o <<t_nl, t_close>>

\* scaffold.rs:221-235: the context struct and the handler function
new_context_and_handler(instruction_name) ==
    <<t_nl,
      <<"#[context] pub struct {}Context">> \o scaffold_to_pascal_case(instruction_name),
      t_nl,
      <<"pub fn {}(ctx: {}Context) -> ProgramResult">> \o instruction_name,
      t_nl>>

\* scaffold.rs:238-251: before the line of the last #[derive(, or at the end
insert_position(new_lib_content) ==
    LET pos == rfind_before(new_lib_content, t_derive, Len(new_lib_content) + 1)
        nl == rfind_before(new_lib_content, t_nl, pos)
    IN  IF pos = 0 THEN Len(new_lib_content) + 1
        ELSE IF nl = 0 THEN pos ELSE nl

\* add_instruction: the result and lib.rs afterwards (None: no such file)
add_instruction(in_workspace, lib, instruction_name) ==
    LET lib_content == Unwrap(lib)
        handlers_start == find_from(lib_content, t_handlers, 1)
        handlers_end == find_from(lib_content, t_close, handlers_start)
        handlers_content == SubSeq(lib_content, handlers_start, handlers_end - 1)
        all_handlers == Append(existing_handlers(handlers_content), <<instruction_name>>)
        new_lib_content == SubSeq(lib_content, 1, handlers_start - 1)
                           \o new_handlers(all_handlers)
                           \o SubSeq(lib_content, handlers_end + 1, Len(lib_content))
        at == insert_position(new_lib_content)
        final_content == SubSeq(new_lib_content, 1, at - 1)
                         \o new_context_and_handler(instruction_name)
                         \o SubSeq(new_lib_content, at, Len(new_lib_content))
        Err(kind) == [result |-> kind, lib |-> lib]
    IN  IF validate_instruction_name(instruction_name) # "Ok"
        THEN Err(validate_instruction_name(instruction_name))
        ELSE IF ~in_workspace THEN Err("Not in a Typhoon workspace")
        ELSE IF ~IsSome(lib) THEN Err("Program not found")
        ELSE IF handlers_start = 0 THEN Err("Could not find handlers! macro in program")
        ELSE IF handlers_end = 0 THEN Err("Could not find end of handlers! macro")
        ELSE [result |-> "Ok", lib |-> Some(final_content)]

\* ---- drawn inputs

h_init == <<"i", "n", "i", "t">>
h_close == <<"c", "l", "o", "s", "e">>

HandlerLists == SeqsUpTo({h_init, h_close}, MaxHandlers)

BlockForms == {"lines", "last bare", "one line", "commented", "unclosed"}

\* a handlers! block listing hs, written in one of the forms
Block(form, hs) ==
    LET entry(i) == <<t_indent, hs[i], t_comma, t_nl>>
        bare(i) == <<t_indent, hs[i], t_nl>>
        RECURSIVE Entries(_)
        Entries(i) == IF i > Len(hs) THEN <<>> ELSE entry(i) \o Entries(i + 1)
        RECURSIVE Inline(_)
        Inline(i) == IF i > Len(hs) THEN <<>>
                     ELSE <<t_indent, hs[i]>>
                          \o (IF i < Len(hs) THEN <<t_comma>> ELSE <<>>) \o Inline(i + 1)
        RECURSIVE AllButLast(_)
        AllButLast(i) == IF i >= Len(hs) THEN <<>> ELSE entry(i) \o AllButLast(i + 1)
    IN  CASE form = "lines" -> <<t_handlers, t_nl>> \o Entries(1) \o <<t_close>>
          [] form = "last bare" ->
                <<t_handlers, t_nl>> \o AllButLast(1)
                \o (IF hs = <<>> THEN <<>> ELSE bare(Len(hs))) \o <<t_close>>
          [] form = "one line" -> <<t_handlers>> \o Inline(1) \o <<t_indent, t_close>>
          [] form = "commented" ->
                <<t_handlers, t_nl, t_indent, t_comment, t_code, t_nl>>
                \o Entries(1) \o <<t_close>>
          [] form = "unclosed" -> <<t_handlers, t_nl>> \o Entries(1)

Befores == {<<>>, <<t_code, t_nl>>, <<t_derive, t_nl, t_code, t_nl>>}
Afters == {<<>>, <<t_nl, t_code, t_nl>>, <<t_nl, t_derive, t_nl, t_code, t_nl>>}

InstructionNames == {<<"m", "i", "n", "t", "_", "t", "o">>, <<"f", "n">>, <<"2", "x">>}

\* the lib.rs files: none, without a handlers! macro, or with one block
LibInputs ==
    {[before |-> <<>>, form |-> "no file", handlers |-> <<>>, after |-> <<>>]}
    \cup [before : Befores, form : {"no macro"}, handlers : {<<>>}, after : Afters]
    \cup [before : Befores, form : BlockForms, handlers : HandlerLists, after : Afters]

LibOf(in) ==
    IF in.form = "no file" THEN None
    ELSE IF in.form = "no macro" THEN Some(in.before \o in.after)
    ELSE IF in.form = "unclosed" THEN Some(in.before \o Block(in.form, in.handlers))
    ELSE Some(in.before \o Block(in.form, in.handlers) \o in.after)

InitIns ==
    /\ GenIdle
    /\ CmdIdle
    /\ fpc = "ready"
    /\ fin \in [in_workspace : BOOLEAN, lib : LibInputs, name : InstructionNames]
    /\ fout = <<>>

ApplyIns ==
    /\ fpc = "ready"
    /\ fpc' = "applied"
    /\ fout' = add_instruction(fin.in_workspace, LibOf(fin.lib), fin.name)
    /\ UNCHANGED <<fin, genVars, cmdVars, auxVars>>

NextIns == ApplyIns

SpecIns == InitIns /\ [][NextIns]_vars

\* ---- what the claim says of the texts

\* the handler names a text lists in its handlers! block, in order
Listed(text) ==
    LET hs == find_from(text, t_handlers, 1)
        he == find_from(text, t_close, hs)
    IN  SelectSeq(SubSeq(text, hs + 1, he - 1), LAMBDA tok : tok \notin SpecialTokens)

\* the text before the handlers! block and the text after it
Outside(text) ==
    LET hs == find_from(text, t_handlers, 1)
        he == find_from(text, t_close, hs)
    IN  <<SubSeq(text, 1, hs - 1), SubSeq(text, he + 1, Len(text))>>

\* the text with the inserted context and handler taken out again
WithoutStub(text, name) ==
    LET stub == new_context_and_handler(name)
        at == CHOOSE i \in 1..Len(text) :
                 /\ i + Len(stub) - 1 <= Len(text)
                 /\ SubSeq(text, i, i + Len(stub) - 1) = stub
    IN  SubSeq(text, 1, at - 1) \o SubSeq(text, at + Len(stub), Len(text))

\* C29: add_instruction only appends: the rewritten handlers! block lists
\* every handler that was listed before, in the same order, followed by the
\* new instruction name as the last entry, and all text of lib.rs outside
\* the handlers! block and the inserted context/handler stub is unchanged;
\* when the handlers! macro is not found the file is not modified.
C29_AddInstructionOnlyAppends ==
    fpc = "applied" =>
        /\ fout.result = "Ok" =>
              /\ Listed(Unwrap(fout.lib)) = Append(fin.lib.handlers, fin.name)
              /\ Outside(WithoutStub(Unwrap(fout.lib), fin.name))
                    = Outside(Unwrap(LibOf(fin.lib)))
        /\ fout.result # "Ok" => fout.lib = LibOf(fin.lib)
        /\ fin.lib.form = "no macro" => fout.result # "Ok"

\* ---------------------------------------------------------------------
\* test.rs: run_all_tests
\* ---------------------------------------------------------------------

MaxDirEntries == 3

\* what programs/ may hold: program directories, a plain file, and a
\* directory whose name is not valid UTF-8
DirEntryPool ==
    {[name |-> "a", is_dir |-> TRUE, utf8 |-> TRUE],
     [name |-> "b", is_dir |-> TRUE, utf8 |-> TRUE],
     [name |-> "notes", is_dir |-> FALSE, utf8 |-> TRUE],
     [name |-> "n", is_dir |-> TRUE, utf8 |-> FALSE]}

\* read_dir yields each entry once, in any order
DirListings ==
    {l \in SeqsUpTo(DirEntryPool, MaxDirEntries) :
        \A i, j \in 1..Len(l) : l[i] = l[j] => i = j}

\* test.rs:103-113: the names of the entries that are directories and whose
\* file name converts to a String
program_names(listing) ==
    LET kept == SelectSeq(listing, LAMBDA e : e.is_dir /\ e.utf8)
    IN  [i \in 1..Len(kept) |-> kept[i].name]

\* A loop that gives up at the first program whose tests fail
after_program_stop_on_error(i, n, ok) == IF ok THEN i + 1 ELSE n + 1

\* test.rs:122-130: the loop goes on to the next program after Ok and Err
after_program(i, n, ok) == i + 1

SuiteEnd(kind, names) ==
    suite' = [suite EXCEPT !.pc = "done", !.result = kind, !.named = names]

\* one call of run_program_tests has returned
Tested(outcome) ==
    LET name == suite.programs[suite.i]
        ok == outcome = "passed"
    IN  suite' = [suite EXCEPT
                    !.pc = "loop", !.cargo = "",
                    !.attempts = Append(@, [name |-> name, outcome |-> outcome]),
                    !.failed_programs = IF ok THEN @ ELSE Append(@, name),
                    !.i = after_program(suite.i, Len(suite.programs), ok)]

\* test.rs:97-118: programs/ is looked up and read
SuiteStart ==
    /\ suite.pc = "idle"
    /\ IF ~IsSome(suite.listing) THEN SuiteEnd("No programs directory found", <<>>)
       ELSE \/ SuiteEnd("Io", <<>>)
            \/ LET programs == program_names(Unwrap(suite.listing))
               IN  IF programs = <<>> THEN SuiteEnd("Ok", <<>>)
                   ELSE suite' = [suite EXCEPT !.pc = "loop", !.programs = programs,
                                               !.i = 1]
    /\ UNCHANGED suiteFrame

\* test.rs:46-65: run_program_tests up to the start of cargo test-sbf
ProgramTestStart ==
    /\ suite.pc = "loop"
    /\ suite.i <= Len(suite.programs)
    /\ \/ suite' = [suite EXCEPT !.pc = "wait", !.cargo = "running"]
       \/ Tested("Failed to execute cargo test-sbf")
    /\ UNCHANGED suiteFrame

\* test.rs:67-88: cargo test-sbf has exited
ProgramTestExit ==
    /\ suite.pc = "wait"
    /\ \E success \in BOOLEAN : Tested(IF success THEN "passed" ELSE "Tests failed")
    /\ UNCHANGED suiteFrame

\* test.rs:132-145: the loop is over
SuiteFinish ==
    /\ suite.pc = "loop"
    /\ suite.i > Len(suite.programs)
    /\ IF suite.failed_programs # <<>>
       THEN SuiteEnd("Tests failed for programs", suite.failed_programs)
       ELSE SuiteEnd("Ok", <<>>)
    /\ UNCHANGED suiteFrame

InitSuite ==
    /\ GenIdle
    /\ FunIdle
    /\ tree = {}
    /\ procs = [p \in Procs |-> IdleProc]
    /\ unix = TRUE
    /\ test = TestIdle
    /\ job = JobIdle
    /\ wksp = EmptyWs
    /\ sync = SyncIdle
    /\ suite \in {[SuiteIdle EXCEPT !.listing = l] : l \in OptionOf(DirListings)}

NextSuite ==
    \/ SuiteStart
    \/ ProgramTestStart
    \/ ProgramTestExit
    \/ SuiteFinish

\* every call returns and every cargo test-sbf process exits
SpecSuite == InitSuite /\ [][NextSuite]_vars /\ WF_vars(NextSuite)

\* the names of the attempts, and of the attempts that did not pass
AttemptNames(log) == [i \in 1..Len(log) |-> log[i].name]

FailedNames(log) ==
    AttemptNames(SelectSeq(log, LAMBDA a : a.outcome # "passed"))

\* the names of all directories of a listing
DirectoryNames(listing) ==
    LET dirs == SelectSeq(listing, LAMBDA e : e.is_dir)
    IN  [i \in 1..Len(dirs) |-> dirs[i].name]

\* at the end, the directories in expected were each tested once, in order,
\* and the error names the failed ones
OnePass(expected) ==
    suite.pc = "done" =>
        /\ AttemptNames(suite.attempts) = expected
        /\ suite.result # "Ok" <=> FailedNames(suite.attempts) # <<>>
        /\ suite.named = FailedNames(suite.attempts)

NoListing ==
    /\ ~IsSome(suite.listing) => suite.result = "No programs directory found"
    /\ suite.result \in {"No programs directory found", "Io"}
          => suite.attempts = <<>> /\ suite.named = <<>>

====
